---- MODULE Spec2Model ----
(***************************************************************************)
(* Model of the techdetect detection engine: the HTTP stage (DetectHTTP,   *)
(* requestWithRetry, makeRequest with manual redirect handling), the       *)
(* query evaluator and the rule store.                                     *)
(*                                                                         *)
(* A Go string is modelled as a sequence of tokens (each token a TLA+      *)
(* string), so that searching, splitting, joining and prefix tests are     *)
(* computed as the code computes them.  The empty string is << >>.         *)
(***************************************************************************)
EXTENDS Integers, Sequences, FiniteSets, TLC

(***************************************************************************)
(* Program constants (src/http_detector.go:13-18).                         *)
(***************************************************************************)
MaxRetries == 1
MaxRedirects == 3
\* InitialBackoff, in seconds
InitialBackoff == 1

(***************************************************************************)
(* Bounds of the model.                                                    *)
(***************************************************************************)
\* number of distinct non-empty response bodies the accumulating server uses
MaxBodies == 2
\* number of probe paths (besides "/") declared by the multi-path rule store
MaxExtraPaths == 2

\* longest child list of a combinator in the evaluator runs
MaxChildren == 2
\* passes of addImpliedTechnologies the pass-by-pass runs follow
MaxPasses == 7

(***************************************************************************)
(* String helpers (package strings).                                       *)
(***************************************************************************)
Range(s) == {s[i] : i \in DOMAIN s}

Min(S) == CHOOSE x \in S : \A y \in S : x <= y

Max(S) == CHOOSE x \in S : \A y \in S : x >= y

\* s[lo..hi] with Go's clamping left to the caller
Slice(s, lo, hi) == IF hi < lo THEN << >> ELSE SubSeq(s, lo, hi)

MatchAt(s, sub, i) ==
    /\ i >= 1
    /\ i + Len(sub) - 1 <= Len(s)
    /\ \A j \in 1..Len(sub) : s[i + j - 1] = sub[j]

\* strings.Index: position (1-based) of the first occurrence, 0 when absent
Index(s, sub) ==
    LET hits == {i \in 1..(Len(s) + 1) : MatchAt(s, sub, i)}
    IN  IF hits = {} THEN 0 ELSE Min(hits)

\* strings.LastIndex: position (1-based) of the last occurrence, 0 when absent
LastIndex(s, sub) ==
    LET hits == {i \in 1..(Len(s) + 1) : MatchAt(s, sub, i)}
    IN  IF hits = {} THEN 0 ELSE Max(hits)

\* strings.Contains
Contains(s, sub) == Index(s, sub) # 0

\* strings.HasPrefix
HasPrefix(s, p) == MatchAt(s, p, 1)

\* strings.HasSuffix
HasSuffix(s, p) == Len(p) <= Len(s) /\ MatchAt(s, p, Len(s) - Len(p) + 1)

\* strings.TrimSuffix
TrimSuffix(s, p) == IF HasSuffix(s, p) THEN Slice(s, 1, Len(s) - Len(p)) ELSE s

\* lower-casing of one token (the alphabet has one upper-case host, and the
\* header names in their spellings)
Lower(t) ==
    CASE t = "GOOD" -> "good"
      [] t = "Server" -> "server"
      [] t = "SERVER" -> "server"
      [] t = "X-Gen" -> "x-gen"
      [] t = "Location" -> "location"
      [] OTHER -> t

\* strings.EqualFold
EqualFold(a, b) ==
    /\ Len(a) = Len(b)
    /\ \A i \in 1..Len(a) : Lower(a[i]) = Lower(b[i])

RECURSIVE JoinFrom(_, _, _)
JoinFrom(elems, sep, i) ==
    IF i > Len(elems) THEN << >>
    ELSE IF i = Len(elems) THEN elems[i]
    ELSE elems[i] \o sep \o JoinFrom(elems, sep, i + 1)

\* strings.Join
Join(elems, sep) == JoinFrom(elems, sep, 1)

(***************************************************************************)
(* URL helpers of http_detector.go.                                        *)
(***************************************************************************)
SchemeSep == <<":", "/", "/">>

\* parseURL: [ok, scheme, host, port]
parseURL(urlStr) ==
    LET schemeEnd == Index(urlStr, SchemeSep)
        scheme    == Slice(urlStr, 1, schemeEnd - 1)
        rest      == Slice(urlStr, schemeEnd + 3, Len(urlStr))
        slashIdx  == Index(rest, <<"/">>)
        hostPort  == IF slashIdx = 0 THEN rest ELSE Slice(rest, 1, slashIdx - 1)
        colonIdx  == LastIndex(hostPort, <<":">>)
    IN  IF schemeEnd = 0
        THEN [ok |-> FALSE, scheme |-> << >>, host |-> << >>, port |-> << >>]
        ELSE IF colonIdx # 0
        THEN [ok |-> TRUE, scheme |-> scheme,
              host |-> Slice(hostPort, 1, colonIdx - 1),
              port |-> Slice(hostPort, colonIdx + 1, Len(hostPort))]
        ELSE [ok |-> TRUE, scheme |-> scheme, host |-> hostPort,
              port |-> IF scheme = <<"https">> THEN <<"443">> ELSE <<"80">>]

\* resolveURL: [ok, url]
resolveURL(base, relative) ==
    IF HasPrefix(relative, <<"http">> \o SchemeSep)
       \/ HasPrefix(relative, <<"https">> \o SchemeSep)
    THEN [ok |-> TRUE, url |-> relative]
    ELSE IF HasPrefix(relative, <<"/", "/">>)
    THEN LET baseParts == parseURL(base)
         IN  IF ~baseParts.ok THEN [ok |-> FALSE, url |-> << >>]
             ELSE [ok |-> TRUE, url |-> baseParts.scheme \o <<":">> \o relative]
    ELSE IF HasPrefix(relative, <<"/">>)
    THEN LET schemeEnd  == Index(base, SchemeSep)
             rest       == Slice(base, schemeEnd + 3, Len(base))
             slashIdx   == Index(rest, <<"/">>)
             basePrefix == IF slashIdx = 0 THEN base
                           ELSE Slice(base, 1, schemeEnd + 2 + slashIdx - 1)
         IN  IF schemeEnd = 0 THEN [ok |-> FALSE, url |-> << >>]
             ELSE [ok |-> TRUE, url |-> basePrefix \o relative]
    ELSE IF HasSuffix(base, <<"/">>)
    THEN [ok |-> TRUE, url |-> base \o relative]
    ELSE [ok |-> TRUE, url |-> base \o <<"/">> \o relative]

\* isSameDomain
isSameDomain(url1, url2) == EqualFold(url1.host, url2.host)

\* The host the HTTP client connects to for a request URL (net/url, used by
\* http.NewRequest and client.Do): the authority runs to the first "/",
\* userinfo up to the last "@" is not part of the host, and the port after
\* the last ":" is not part of the host.
ConnectHost(urlStr) ==
    LET schemeEnd == Index(urlStr, SchemeSep)
        rest      == Slice(urlStr, schemeEnd + 3, Len(urlStr))
        slashIdx  == Index(rest, <<"/">>)
        authority == IF slashIdx = 0 THEN rest ELSE Slice(rest, 1, slashIdx - 1)
        atIdx     == LastIndex(authority, <<"@">>)
        hostPort  == Slice(authority, atIdx + 1, Len(authority))
        colonIdx  == LastIndex(hostPort, <<":">>)
    IN  IF colonIdx = 0 THEN hostPort ELSE Slice(hostPort, 1, colonIdx - 1)

(***************************************************************************)
(* JSON values of the rule format (interface{} after json.Unmarshal).      *)
(*   [t |-> "str",  s |-> tokens]        a string                          *)
(*   [t |-> "bool", b |-> BOOLEAN]       a boolean                         *)
(*   [t |-> "list", l |-> <<values>>]    an array                          *)
(*   [t |-> "obj",  kv |-> <<[k, v]>>]   an object; kv lists its keys in   *)
(*                                       the order a range visits them     *)
(***************************************************************************)
Str(s) == [t |-> "str", s |-> s]

Bool(b) == [t |-> "bool", b |-> b]

List(l) == [t |-> "list", l |-> l]

Obj(kv) == [t |-> "obj", kv |-> kv]

\* a single-key object {k: v}
Obj1(k, v) == Obj(<<[k |-> k, v |-> v]>>)

\* the (matched, version) pair of the evaluator
Res(m, v) == [matched |-> m, version |-> v]

NoMatch == Res(FALSE, << >>)

\* strings.Split on a one-token separator
RECURSIVE Split(_, _)
Split(s, sep) ==
    LET i == Index(s, <<sep>>)
    IN  IF i = 0 THEN <<s>>
        ELSE <<Slice(s, 1, i - 1)>> \o Split(Slice(s, i + 1, Len(s)), sep)

(***************************************************************************)
(* Regular expressions (package regexp).  A pattern is a token sequence:   *)
(* "^" and "$" anchor, "(v)" is a capture group matching one version       *)
(* token, "(" is an unbalanced parenthesis and "\\1" a backreference (the   *)
(* pattern does not compile), every other token matches itself.           *)
(***************************************************************************)
VersionTokens == {"1.18.0", "2.0"}

VersionMarker == "\\;version:"

\* regexp.Compile succeeds
Compiles(pattern) == "(" \notin Range(pattern) /\ "\\1" \notin Range(pattern)

\* regexp.FindStringSubmatch: << >> when there is no match, otherwise the
\* whole match followed by the captured groups
FindStringSubmatch(pattern, value) ==
    LET atStart == Len(pattern) >= 1 /\ pattern[1] = "^"
        noStart == IF atStart THEN Slice(pattern, 2, Len(pattern)) ELSE pattern
        atEnd   == Len(noStart) >= 1 /\ noStart[Len(noStart)] = "$"
        core    == IF atEnd THEN Slice(noStart, 1, Len(noStart) - 1) ELSE noStart
        Fits(i) ==
            /\ i + Len(core) - 1 <= Len(value)
            /\ atStart => i = 1
            /\ atEnd => i + Len(core) - 1 = Len(value)
            /\ \A j \in 1..Len(core) :
                 IF core[j] = "(v)" THEN value[i + j - 1] \in VersionTokens
                 ELSE value[i + j - 1] = core[j]
        hits    == {i \in 1..(Len(value) + 1) : Fits(i)}
        at      == Min(hits)
        grpIdx  == {j \in 1..Len(core) : core[j] = "(v)"}
        RECURSIVE Groups(_)
        Groups(j) == IF j > Len(core) THEN << >>
                     ELSE IF j \in grpIdx
                     THEN << <<value[at + j - 1]>> >> \o Groups(j + 1)
                     ELSE Groups(j + 1)
    IN  IF hits = {} THEN << >>
        ELSE <<Slice(value, at, at + Len(core) - 1)>> \o Groups(1)

(***************************************************************************)
(* Query evaluator (query.go).  ctx = [Body, Headers, StatusCode]; Headers *)
(* is a function from header names (one token each) to values.             *)
(***************************************************************************)
\* getFieldValue
getFieldValue(fieldPath, ctx) ==
    LET parts == Split(fieldPath, ".")
    IN  IF parts[1] = <<"body">> THEN ctx.Body
        ELSE IF parts[1] = <<"headers">> /\ Len(parts) > 1
        THEN LET headerName == Join(Slice(parts, 2, Len(parts)), <<".">>)
                 found == {k \in DOMAIN ctx.Headers : EqualFold(<<k>>, headerName)}
             IN  IF found = {} THEN << >>
                 ELSE ctx.Headers[CHOOSE k \in found : TRUE]
        ELSE << >>

\* a variant that compiles the pattern as it is written, marker included
evaluateRegexWhole(fieldValue, pattern) ==
    IF pattern.t # "str" THEN NoMatch
    ELSE LET parts   == Split(pattern.s, VersionMarker)
             matches == FindStringSubmatch(pattern.s, fieldValue)
         IN  IF ~Compiles(pattern.s) THEN NoMatch
             ELSE IF Len(matches) = 0 THEN NoMatch
             ELSE IF Len(parts) > 1 /\ Len(matches) > 1
             THEN Res(TRUE, matches[2])
             ELSE Res(TRUE, << >>)

\* evaluateRegex
evaluateRegex(fieldValue, pattern) ==
    IF pattern.t # "str" THEN NoMatch
    ELSE LET parts         == Split(pattern.s, VersionMarker)
             actualPattern == parts[1]
             matches       == FindStringSubmatch(actualPattern, fieldValue)
         IN  IF ~Compiles(actualPattern) THEN NoMatch
             ELSE IF Len(matches) = 0 THEN NoMatch
             ELSE IF Len(parts) > 1 /\ Len(matches) > 1
             THEN Res(TRUE, matches[2])
             ELSE Res(TRUE, << >>)

\* evaluateEquals
evaluateEquals(fieldValue, operand) ==
    IF operand.t # "str" THEN NoMatch ELSE Res(fieldValue = operand.s, << >>)

\* evaluateNotEquals
evaluateNotEquals(fieldValue, operand) ==
    IF operand.t # "str" THEN NoMatch ELSE Res(fieldValue # operand.s, << >>)

\* evaluateExists
evaluateExists(fieldValue, operand) ==
    IF operand.t # "bool" THEN NoMatch
    ELSE Res((fieldValue # << >>) = operand.b, << >>)

\* evaluateIn
evaluateIn(fieldValue, operand) ==
    IF operand.t # "list" THEN NoMatch
    ELSE Res(\E i \in 1..Len(operand.l) :
                operand.l[i].t = "str" /\ fieldValue = operand.l[i].s, << >>)

\* a variant that looks at the first element of the list only
evaluateNotInFirst(fieldValue, operand) ==
    IF operand.t # "list" THEN NoMatch
    ELSE Res(~(Len(operand.l) > 0 /\ operand.l[1].t = "str"
               /\ fieldValue = operand.l[1].s), << >>)

\* evaluateNotIn
evaluateNotIn(fieldValue, operand) ==
    IF operand.t # "list" THEN NoMatch
    ELSE Res(~\E i \in 1..Len(operand.l) :
                operand.l[i].t = "str" /\ fieldValue = operand.l[i].s, << >>)

Operators == {<<"$regex">>, <<"$eq">>, <<"$ne">>, <<"$exists">>, <<"$in">>, <<"$nin">>}

\* a variant that looks for $exists before it gives up on an empty value
evaluateFieldExistsFirst(fieldPath, condition, ctx) ==
    LET fieldValue == getFieldValue(fieldPath, ctx)
    IN  IF condition.t # "obj" THEN NoMatch
        ELSE LET known == {i \in 1..Len(condition.kv) :
                              condition.kv[i].k \in Operators}
             IN  IF known = {} THEN NoMatch
                 ELSE LET e == condition.kv[Min(known)]
                      IN  IF e.k = <<"$exists">>
                          THEN evaluateExists(fieldValue, e.v)
                          ELSE IF fieldValue = << >> THEN NoMatch
                          ELSE CASE e.k = <<"$regex">> -> evaluateRegex(fieldValue, e.v)
                                 [] e.k = <<"$eq">>    -> evaluateEquals(fieldValue, e.v)
                                 [] e.k = <<"$ne">>    -> evaluateNotEquals(fieldValue, e.v)
                                 [] e.k = <<"$in">>    -> evaluateIn(fieldValue, e.v)
                                 [] e.k = <<"$nin">>   -> evaluateNotIn(fieldValue, e.v)

\* evaluateField: the first operator key the range visits that the switch
\* knows decides; unknown keys are passed over
evaluateField(fieldPath, condition, ctx) ==
    LET fieldValue == getFieldValue(fieldPath, ctx)
    IN  IF fieldValue = << >> THEN NoMatch
        ELSE IF condition.t # "obj" THEN NoMatch
        ELSE LET known == {i \in 1..Len(condition.kv) :
                              condition.kv[i].k \in Operators}
             IN  IF known = {} THEN NoMatch
                 ELSE LET e == condition.kv[Min(known)]
                      IN  CASE e.k = <<"$regex">>  -> evaluateRegex(fieldValue, e.v)
                            [] e.k = <<"$eq">>     -> evaluateEquals(fieldValue, e.v)
                            [] e.k = <<"$ne">>     -> evaluateNotEquals(fieldValue, e.v)
                            [] e.k = <<"$exists">> -> evaluateExists(fieldValue, e.v)
                            [] e.k = <<"$in">>     -> evaluateIn(fieldValue, e.v)
                            [] e.k = <<"$nin">>    -> evaluateNotIn(fieldValue, e.v)

RECURSIVE evaluateQuery(_, _)
RECURSIVE evaluateOrFrom(_, _, _)
RECURSIVE evaluateAndFrom(_, _, _, _)
RECURSIVE evaluateNorFrom(_, _, _)
RECURSIVE evaluateOrFromLast(_, _, _)
RECURSIVE evaluateAndFromFirst(_, _, _, _)

\* a variant of the loop of evaluateOr in which the last matching child
\* decides
evaluateOrFromLast(conditions, i, ctx) ==
    IF i > Len(conditions) THEN NoMatch
    ELSE IF conditions[i].t # "obj" THEN evaluateOrFromLast(conditions, i + 1, ctx)
    ELSE LET r    == evaluateQuery(conditions[i], ctx)
             rest == evaluateOrFromLast(conditions, i + 1, ctx)
         IN  IF rest.matched THEN rest
             ELSE IF r.matched THEN Res(TRUE, r.version)
             ELSE NoMatch

\* the loop of evaluateOr from child i on
evaluateOrFrom(conditions, i, ctx) ==
    IF i > Len(conditions) THEN NoMatch
    ELSE IF conditions[i].t # "obj" THEN evaluateOrFrom(conditions, i + 1, ctx)
    ELSE LET r == evaluateQuery(conditions[i], ctx)
         IN  IF r.matched THEN Res(TRUE, r.version)
             ELSE evaluateOrFrom(conditions, i + 1, ctx)

\* evaluateOr
evaluateOr(value, ctx) ==
    IF value.t # "list" THEN NoMatch ELSE evaluateOrFrom(value.l, 1, ctx)

\* a variant of the loop of evaluateAnd that keeps the first non-empty
\* version
evaluateAndFromFirst(conditions, i, version, ctx) ==
    IF i > Len(conditions) THEN Res(TRUE, version)
    ELSE IF conditions[i].t # "obj" THEN NoMatch
    ELSE LET r == evaluateQuery(conditions[i], ctx)
         IN  IF ~r.matched THEN NoMatch
             ELSE evaluateAndFromFirst(conditions, i + 1,
                     IF version = << >> THEN r.version ELSE version, ctx)

\* the loop of evaluateAnd from child i on, version being the local variable
evaluateAndFrom(conditions, i, version, ctx) ==
    IF i > Len(conditions) THEN Res(TRUE, version)
    ELSE IF conditions[i].t # "obj" THEN NoMatch
    ELSE LET r == evaluateQuery(conditions[i], ctx)
         IN  IF ~r.matched THEN NoMatch
             ELSE evaluateAndFrom(conditions, i + 1,
                     IF r.version # << >> THEN r.version ELSE version, ctx)

\* evaluateAnd
evaluateAnd(value, ctx) ==
    IF value.t # "list" THEN NoMatch ELSE evaluateAndFrom(value.l, 1, << >>, ctx)

\* a variant that passes the version of the child on
evaluateNotKeepVersion(value, ctx) ==
    IF value.t # "obj" THEN NoMatch
    ELSE Res(~evaluateQuery(value, ctx).matched,
             evaluateQuery(value, ctx).version)

\* evaluateNot
evaluateNot(value, ctx) ==
    IF value.t # "obj" THEN NoMatch
    ELSE Res(~evaluateQuery(value, ctx).matched, << >>)

\* the loop of evaluateNor from child i on
evaluateNorFrom(conditions, i, ctx) ==
    IF i > Len(conditions) THEN Res(TRUE, << >>)
    ELSE IF conditions[i].t # "obj" THEN evaluateNorFrom(conditions, i + 1, ctx)
    ELSE IF evaluateQuery(conditions[i], ctx).matched THEN NoMatch
    ELSE evaluateNorFrom(conditions, i + 1, ctx)

\* evaluateNor
evaluateNor(value, ctx) ==
    IF value.t # "list" THEN NoMatch ELSE evaluateNorFrom(value.l, 1, ctx)

\* evaluateQuery: the range returns at the first key it visits
evaluateQuery(query, ctx) ==
    IF Len(query.kv) = 0 THEN NoMatch
    ELSE LET key   == query.kv[1].k
             value == query.kv[1].v
         IN  CASE key = <<"$or">>  -> evaluateOr(value, ctx)
               [] key = <<"$and">> -> evaluateAnd(value, ctx)
               [] key = <<"$not">> -> evaluateNot(value, ctx)
               [] key = <<"$nor">> -> evaluateNor(value, ctx)
               [] OTHER            -> evaluateField(key, value, ctx)

\* Evaluate
Evaluate(query, ctx) == evaluateQuery(query, ctx)

\* the children of a combinator list on which evaluateQuery is called by
\* the loop of evaluateAnd (key "$and"), evaluateOr or evaluateNor
RECURSIVE ChildrenTriedFrom(_, _, _, _)
ChildrenTriedFrom(key, conditions, i, ctx) ==
    IF i > Len(conditions) THEN {}
    ELSE IF conditions[i].t # "obj"
    THEN IF key = <<"$and">> THEN {}
         ELSE ChildrenTriedFrom(key, conditions, i + 1, ctx)
    ELSE LET match == evaluateQuery(conditions[i], ctx).matched
             stop  == IF key = <<"$and">> THEN ~match ELSE match
         IN  IF stop THEN {i}
             ELSE {i} \cup ChildrenTriedFrom(key, conditions, i + 1, ctx)

\* the same for the expression at the top of a call of Evaluate
ChildrenTried(query, ctx) ==
    IF Len(query.kv) = 0 THEN {}
    ELSE IF query.kv[1].k \in {<<"$and">>, <<"$or">>, <<"$nor">>}
            /\ query.kv[1].v.t = "list"
    THEN ChildrenTriedFrom(query.kv[1].k, query.kv[1].v.l, 1, ctx)
    ELSE {}

\* ExtractVersion: rules is a sequence of [field, pattern] (single-key maps)
RECURSIVE ExtractVersionFrom(_, _, _)
ExtractVersionFrom(rules, i, ctx) ==
    IF i > Len(rules) THEN << >>
    ELSE LET fieldValue == getFieldValue(rules[i].field, ctx)
             matches    == FindStringSubmatch(rules[i].pattern, fieldValue)
         IN  IF fieldValue = << >> THEN ExtractVersionFrom(rules, i + 1, ctx)
             ELSE IF ~Compiles(rules[i].pattern)
             THEN ExtractVersionFrom(rules, i + 1, ctx)
             ELSE IF Len(matches) > 1 THEN matches[2]
             ELSE ExtractVersionFrom(rules, i + 1, ctx)

ExtractVersion(rules, ctx) == ExtractVersionFrom(rules, 1, ctx)

(***************************************************************************)
(* Rule store.  Fingerprint = [Implies, Paths]; PathProbe = [Path,         *)
(* Request, Detect, ExtractVersion]; RequestConfig = [Method, Headers] or  *)
(* Nil (a nil *RequestConfig).                                             *)
(***************************************************************************)
Nil == [nil |-> TRUE]

Probe(path, request, detect, extract) ==
    [Path |-> path, Request |-> request, Detect |-> detect,
     ExtractVersion |-> extract]

Field(name) == <<"headers", ".", name>>

RegexCond(field, pattern) == Obj1(field, Obj1(<<"$regex">>, Str(pattern)))

\* the probe paths besides "/"
ExtraPathNames == <<"wp-login", "admin", "api", "feed">>

ExtraPath(i) == <<"/", ExtraPathNames[i]>>

RootPath == <<"/">>

PostConf == [Method |-> <<"POST">>, Headers |-> << >>]

\* headers.server matches ^nginx/([0-9.]+)$ with a version marker
NginxProbe ==
    Probe(RootPath, Nil,
          RegexCond(Field("server"),
                    <<"^", "nginx/", "(v)", "$", VersionMarker, "\\1">>),
          << >>)

\* body matches WordPress, the version comes from the extraction rules
WordPressProbe(path, request) ==
    Probe(path, request,
          RegexCond(<<"body">>, <<"WordPress">>),
          << [field |-> <<"body">>, pattern |-> <<"WordPress", "(v)">>] >>)

\* body matches WordPress on a page that never shows the version: no
\* extraction rules
WordPressLoginProbe(path) ==
    Probe(path, PostConf, RegexCond(<<"body">>, <<"WordPress">>), << >>)

\* body matches "Example CMS v([0-9.]+)" with a version marker
ExampleProbe(path) ==
    Probe(path, Nil,
          RegexCond(<<"body">>, <<"ExampleCMS", "(v)", VersionMarker, "\\1">>),
          << >>)

\* the store of the multi-path runs: "/" is probed by three technologies,
\* every extra path by WordPress, and the first extra path by Example too
MultiStore ==
    [t \in {"Nginx", "WordPress", "Example"} |->
       CASE t = "Nginx" ->
              [Implies |-> << >>, Paths |-> <<NginxProbe>>]
         [] t = "WordPress" ->
              [Implies |-> <<"PHP">>,
               Paths |-> <<WordPressProbe(RootPath, Nil)>> \o
                         [i \in 1..MaxExtraPaths |->
                            WordPressLoginProbe(ExtraPath(i))]]
         [] t = "Example" ->
              [Implies |-> << >>,
               Paths |-> <<ExampleProbe(RootPath), ExampleProbe(ExtraPath(1))>>]]

\* the store of the single-path runs
SingleStore ==
    [t \in {"Nginx", "WordPress"} |->
       CASE t = "Nginx" ->
              [Implies |-> << >>, Paths |-> <<NginxProbe>>]
         [] t = "WordPress" ->
              [Implies |-> <<"PHP">>,
               Paths |-> <<WordPressProbe(RootPath, Nil)>>]]

\* a rule of an extract_version list
Rule(field, pattern) == [field |-> field, pattern |-> pattern]

\* body matches alpha; the version comes from the extraction rules: a
\* header that may be absent, a pattern that does not compile, a pattern
\* without a group, then two capturing rules
AlphaProbe(path) ==
    Probe(path, Nil, RegexCond(<<"body">>, <<"alpha">>),
          << Rule(Field("x-version"), <<"(v)">>),
             Rule(<<"body">>, <<"(", "alpha">>),
             Rule(<<"body">>, <<"alpha">>),
             Rule(<<"body">>, <<"alpha", "(v)">>),
             Rule(Field("server"), <<"nginx/", "(v)">>) >>)

\* headers.server matches with a version marker; an extraction rule that
\* would capture another version from the body
ServerProbe(path) ==
    Probe(path, Nil,
          RegexCond(Field("server"), <<"nginx/", "(v)", VersionMarker, "\\1">>),
          << Rule(<<"body">>, <<"alpha", "(v)">>) >>)

\* body matches beta, no version at all
BetaProbe(path) ==
    Probe(path, Nil, RegexCond(<<"body">>, <<"beta">>), << >>)

\* the store of the probe-loop runs: each technology declares several
\* probes for "/" and for the first extra path
ProbeStore ==
    [t \in {"App", "Lib"} |->
       CASE t = "App" ->
              [Implies |-> << >>,
               Paths |-> <<AlphaProbe(RootPath), BetaProbe(ExtraPath(1)),
                           ServerProbe(RootPath), BetaProbe(RootPath),
                           AlphaProbe(ExtraPath(1))>>]
         [] t = "Lib" ->
              [Implies |-> << >>,
               Paths |-> <<BetaProbe(RootPath), ServerProbe(RootPath),
                           ServerProbe(ExtraPath(1))>>]]

\* all orders in which a range may visit the elements of S
Orders(S) ==
    {f \in [1..Cardinality(S) -> S] :
        \A i, j \in 1..Cardinality(S) : i # j => f[i] # f[j]}

RECURSIVE Flatten(_)
Flatten(ss) == IF ss = << >> THEN << >> ELSE Head(ss) \o Flatten(Tail(ss))

\* a variant that keeps the groups of different technologies apart
ClassKeyPerTech(techName, probe) == <<techName>> \o probe.Path

\* key := probe.Path, the key of pathMap
ClassKey(techName, probe) == probe.Path

\* ClassifyByPath: the set of slices the function may return; the ranges
\* over the fingerprints map and over pathMap visit in any order
ClassifyByPath(fps) ==
    LET keys == UNION {{ClassKey(t, fps[t].Paths[i]) : i \in DOMAIN fps[t].Paths} :
                          t \in DOMAIN fps}
        \* the probes in the order the nested loops visit them
        Visited(techOrder) ==
            Flatten([n \in 1..Len(techOrder) |->
                       [i \in 1..Len(fps[techOrder[n]].Paths) |->
                          [tech |-> techOrder[n],
                           probe |-> fps[techOrder[n]].Paths[i]]]])
        Class(key, techOrder) ==
            LET visited == Visited(techOrder)
                first   == Min({n \in 1..Len(visited) :
                                  ClassKey(visited[n].tech, visited[n].probe) = key})
                techs   == {t \in DOMAIN fps :
                              \E i \in DOMAIN fps[t].Paths :
                                 ClassKey(t, fps[t].Paths[i]) = key}
            IN  [Path |-> visited[first].probe.Path,
                 RequestConf |-> visited[first].probe.Request,
                 Technologies |->
                    [t \in techs |->
                       SelectSeq(fps[t].Paths,
                                 LAMBDA pr : ClassKey(t, pr) = key)]]
    IN  {[n \in 1..Cardinality(keys) |-> Class(keyOrder[n], techOrder)] :
            keyOrder \in Orders(keys), techOrder \in Orders(DOMAIN fps)}

(***************************************************************************)
(* HTTP.  A response is [status, hdrs, body]; hdrs is the header block as  *)
(* sent, a sequence of [name, value].                                      *)
(***************************************************************************)
\* textproto.CanonicalMIMEHeaderKey on one header name
CanonicalKey(name) ==
    CASE Lower(name) = "server" -> "Server"
      [] Lower(name) = "x-gen" -> "X-Gen"
      [] Lower(name) = "location" -> "Location"
      [] OTHER -> name

\* resp.Header: canonical name -> the values in the order received
RespHeader(resp) ==
    LET keys == {CanonicalKey(resp.hdrs[i].name) : i \in DOMAIN resp.hdrs}
        RECURSIVE Values(_, _)
        Values(k, i) ==
            IF i > Len(resp.hdrs) THEN << >>
            ELSE IF CanonicalKey(resp.hdrs[i].name) = k
            THEN <<resp.hdrs[i].value>> \o Values(k, i + 1)
            ELSE Values(k, i + 1)
    IN  [k \in keys |-> Values(k, 1)]

\* resp.Header.Get
HeaderGet(header, name) ==
    IF CanonicalKey(name) \in DOMAIN header
       /\ Len(header[CanonicalKey(name)]) > 0
    THEN header[CanonicalKey(name)][1]
    ELSE << >>

EmptyHeaders == [k \in {} |-> << >>]

\* strconv of the small integers the error text carries
Itoa(n) == CASE n = 0 -> "0" [] n = 1 -> "1" [] n = 2 -> "2" [] OTHER -> "n"

\* error texts of a failed attempt
ErrTimeout == <<"Get", "context deadline exceeded">>

ErrNoHost == <<"Get", "dial tcp: lookup", "no such host">>

ErrUnreachable == <<"Get", "dial tcp: connect:", "network is unreachable">>

(***************************************************************************)
(* Pure steps of the fetch pipeline (http_detector.go).                    *)
(***************************************************************************)
\* the target of the run (the baseURL argument of DetectHTTP)
BaseURL == <<"http", ":", "/", "/", "good", "/">>

\* fullURL := strings.TrimSuffix(baseURL, "/") + classification.Path
FullURL(baseURL, path) == TrimSuffix(baseURL, <<"/">>) \o path

\* the fatal-error test of DetectHTTP on err.Error()
IsFatal(errStr) ==
    \/ Contains(errStr, <<"no such host">>)
    \/ Contains(errStr, <<"network is unreachable">>)

\* the loop that follows the fatal-error test: every classification whose
\* path is not yet in failedPaths is appended, in slice order
\* a variant without the alreadyFailed test
MarkRemainingFromAll(failed, classes, n) ==
    failed \o [i \in 1..(Len(classes) - n + 1) |-> classes[n + i - 1].Path]

RECURSIVE MarkRemainingFrom(_, _, _)
MarkRemainingFrom(failed, classes, n) ==
    IF n > Len(classes) THEN failed
    ELSE IF classes[n].Path \in Range(failed)
    THEN MarkRemainingFrom(failed, classes, n + 1)
    ELSE MarkRemainingFrom(Append(failed, classes[n].Path), classes, n + 1)

\* a variant that marks nothing
MarkRemainingNone(failed, classes) == failed

MarkRemaining(failed, classes) == MarkRemainingFrom(failed, classes, 1)

\* a variant that treats every failure as fatal
AfterFailureAlwaysBreak(errStr) == "break"

\* what the path loop does after a failed fetch: "break" or "continue"
AfterFailure(errStr) == IF IsFatal(errStr) THEN "break" ELSE "continue"

\* fmt.Errorf("failed after %d retries: %w", MaxRetries, lastErr)
Wrap(lastErr) == <<"failed after", Itoa(MaxRetries), "retries:">> \o lastErr

\* "Don't retry on last attempt": a backoff follows attempt number retry
ShouldBackoff(retry) == retry < MaxRetries

\* a variant whose first backoff is already doubled
BackoffDoubled(retry) == InitialBackoff * (2 ^ (retry + 1))

\* backoff := InitialBackoff * time.Duration(math.Pow(2, float64(retry)))
Backoff(retry) == InitialBackoff * (2 ^ retry)

\* a variant in which a later hop replaces a recorded header
AccumHeadersLast(all, header) ==
    [k \in DOMAIN all \cup {h \in DOMAIN header : Len(header[h]) > 0} |->
        IF k \in DOMAIN header /\ Len(header[k]) > 0 THEN header[k][1]
        ELSE all[k]]

\* "Keep first occurrence of each header"
AccumHeaders(all, header) ==
    [k \in DOMAIN all \cup {h \in DOMAIN header : Len(header[h]) > 0} |->
        IF k \in DOMAIN all THEN all[k] ELSE header[k][1]]

\* a variant that puts the newest body first
AccumBodiesFront(all, body) == IF Len(body) > 0 THEN <<body>> \o all ELSE all

\* "Collect body from this response"
AccumBodies(all, body) == IF Len(body) > 0 THEN Append(all, body) ELSE all

\* a variant whose limit is off by one
LimitReachedLate(redirectCount) == redirectCount > MaxRedirects

\* "Check redirect limit"
LimitReached(redirectCount) == redirectCount >= MaxRedirects

\* the redirect branch of makeRequest: whether the loop continues, and where
RedirectTarget(cur, redirectCount, resp) ==
    LET location     == HeaderGet(RespHeader(resp), "Location")
        curParsed    == parseURL(cur)
        redirect     == resolveURL(cur, location)
        redirParsed  == parseURL(redirect.url)
        stop         == [follow |-> FALSE, url |-> cur]
    IN  IF ~(resp.status >= 300 /\ resp.status < 400) THEN stop
        ELSE IF location = << >> THEN stop
        ELSE IF LimitReached(redirectCount) THEN stop
        ELSE IF ~curParsed.ok THEN stop
        ELSE IF ~redirect.ok THEN stop
        ELSE IF ~redirParsed.ok THEN stop
        ELSE IF ~isSameDomain(curParsed, redirParsed) THEN stop
        ELSE [follow |-> TRUE, url |-> redirect.url]

\* the DetectionContext makeRequest returns
\* a variant that leaves the status at its zero value
MakeContextNoStatus(bodies, headers) ==
    [Body |-> Join(bodies, <<"\n">>), Headers |-> headers, StatusCode |-> 0]

MakeContext(bodies, headers) ==
    [Body |-> Join(bodies, <<"\n">>), Headers |-> headers, StatusCode |-> 200]

\* method of the request makeRequest builds
RequestMethod(reqConfig) ==
    IF reqConfig # Nil /\ reqConfig.Method # << >> THEN reqConfig.Method
    ELSE <<"GET">>

\* a variant in which the last matching probe decides
FirstMatchLast(probes, ctx) ==
    LET hits == {i \in 1..Len(probes) : Evaluate(probes[i].Detect, ctx).matched}
    IN  IF hits = {} THEN 0 ELSE Max(hits)

\* the probe loop for one technology: index of the first matching probe, 0
\* when none matches
FirstMatch(probes, ctx) ==
    LET hits == {i \in 1..Len(probes) : Evaluate(probes[i].Detect, ctx).matched}
    IN  IF hits = {} THEN 0 ELSE Min(hits)

\* the probes of one technology the loop evaluates before it ends or breaks
ProbesTriedOf(probes, ctx) ==
    IF FirstMatch(probes, ctx) = 0 THEN 1..Len(probes)
    ELSE 1..FirstMatch(probes, ctx)

\* the same for every technology of a classified path
ProbesTried(technologies, ctx) ==
    [t \in DOMAIN technologies |-> ProbesTriedOf(technologies[t], ctx)]

\* the loop of ExtractVersion from rule i on: the rules it visits
RECURSIVE ExtractVersionTriedFrom(_, _, _)
ExtractVersionTriedFrom(rules, i, ctx) ==
    IF i > Len(rules) THEN {}
    ELSE LET fieldValue == getFieldValue(rules[i].field, ctx)
             matches    == FindStringSubmatch(rules[i].pattern, fieldValue)
         IN  IF fieldValue # << >> /\ Compiles(rules[i].pattern)
                /\ Len(matches) > 1
             THEN {i}
             ELSE {i} \cup ExtractVersionTriedFrom(rules, i + 1, ctx)

\* the extraction rules visited for a matching probe
RulesTriedOf(probe, ctx) ==
    IF Evaluate(probe.Detect, ctx).version = << >>
       /\ Len(probe.ExtractVersion) > 0
    THEN ExtractVersionTriedFrom(probe.ExtractVersion, 1, ctx)
    ELSE {}

\* the same for every technology of a classified path
RulesTried(technologies, ctx) ==
    [t \in DOMAIN technologies |->
        IF FirstMatch(technologies[t], ctx) = 0 THEN {}
        ELSE RulesTriedOf(technologies[t][FirstMatch(technologies[t], ctx)],
                          ctx)]

\* a variant that runs the extraction rules whenever there are any
ProbeVersionAlwaysExtract(probe, ctx) ==
    IF Len(probe.ExtractVersion) > 0
    THEN ExtractVersion(probe.ExtractVersion, ctx)
    ELSE Evaluate(probe.Detect, ctx).version

\* the version recorded for a matching probe
ProbeVersion(probe, ctx) ==
    LET version == Evaluate(probe.Detect, ctx).version
    IN  IF version = << >> /\ Len(probe.ExtractVersion) > 0
        THEN ExtractVersion(probe.ExtractVersion, ctx)
        ELSE version

\* a variant that records every technology with a probe at the path
EvalProbesDeclared(res, technologies, ctx) ==
    [t \in DOMAIN res \cup DOMAIN technologies |->
        IF t \in DOMAIN technologies
        THEN IF FirstMatch(technologies[t], ctx) # 0
             THEN ProbeVersion(technologies[t][FirstMatch(technologies[t], ctx)],
                               ctx)
             ELSE << >>
        ELSE res[t]]

\* "Check all technologies for this path": the results map afterwards
EvalProbes(res, technologies, ctx) ==
    LET matched == {t \in DOMAIN technologies : FirstMatch(technologies[t], ctx) # 0}
    IN  [t \in DOMAIN res \cup matched |->
            IF t \in matched
            THEN ProbeVersion(technologies[t][FirstMatch(technologies[t], ctx)], ctx)
            ELSE res[t]]

(***************************************************************************)
(* The servers a run may face: the responses and errors an HTTP request    *)
(* can come back with.                                                     *)
(***************************************************************************)
Hdr(name, value) == [name |-> name, value |-> value]

Resp(status, hdrs, body) == [status |-> status, hdrs |-> hdrs, body |-> body]

Url(scheme, authority, path) == <<scheme>> \o SchemeSep \o authority \o path

\* Location values a server may send
Locations ==
    { Url("http", <<"good">>, <<"/", "b">>),               \* same host
      Url("http", <<"GOOD">>, <<"/", "b">>),               \* same host, other case
      Url("http", <<"good", ":", "8080">>, <<"/", "b">>),  \* other port
      Url("https", <<"good">>, <<"/", "b">>),              \* other scheme
      Url("http", <<"evil">>, <<"/", "b">>),               \* other host
      <<"/", "/", "evil", "/", "b">>,                      \* scheme-relative, other host
      <<"/", "/", "good", "/", "b">>,                      \* scheme-relative, same host
      <<"/">>,                                             \* absolute path (a loop on "/")
      <<"b">>,                                             \* relative path
      Url("http", <<"good", ":", "80", "@", "evil">>, <<"/", "b">>) } \* userinfo

\* multi-path runs: a page that matches the probes, a page that does not
DetectServer ==
    [responses |->
        { Resp(200, <<Hdr("Server", <<"nginx/", "1.18.0">>)>>,
               <<"WordPress", "2.0">>),
          Resp(404, << >>, <<"hello">>) },
     errors |-> {ErrTimeout, ErrNoHost, ErrUnreachable}]

\* redirect runs: every Location value, a 3xx without Location, a final page
\* a target that answers with error statuses: the 404 page shows WordPress
\* and the server, the 500 page the Example CMS
StatusServer ==
    [responses |->
        { Resp(200, << >>, <<"hello">>),
          Resp(404, <<Hdr("Server", <<"nginx/", "1.18.0">>)>>,
               <<"WordPress", "2.0">>),
          Resp(500, << >>, <<"ExampleCMS", "2.0">>),
          Resp(403, << >>, << >>) },
     errors |-> {ErrTimeout}]

\* a target that redirects to its own root, answers, times out or cannot
\* be resolved
LoopServer ==
    [responses |->
        { Resp(302, <<Hdr("Location", <<"/">>)>>, <<"moved">>),
          Resp(200, <<Hdr("Server", <<"nginx/", "1.18.0">>)>>,
               <<"WordPress", "2.0">>) },
     errors |-> {ErrTimeout, ErrNoHost}]

RedirectServer ==
    [responses |->
        {Resp(302, <<Hdr("Location", loc)>>, <<"moved">>) : loc \in Locations}
        \cup { Resp(301, << >>, <<"moved">>),
               Resp(200, <<Hdr("Server", <<"nginx/", "1.18.0">>)>>,
                    <<"WordPress", "2.0">>) },
     errors |-> {ErrTimeout}]

\* probe-loop runs: pages on which none, one or several probes match
ProbeServer ==
    LET bodies == { <<"alpha", "2.0">>, <<"alpha">>, <<"beta">>,
                    <<"beta", "alpha", "2.0">>, <<"hello">> }
        blocks == { << >>, <<Hdr("Server", <<"nginx/", "1.18.0">>)>>,
                    <<Hdr("X-Version", <<"1.18.0">>)>> }
    IN  [responses |-> {Resp(200, h, b) : h \in blocks, b \in bodies},
         errors |-> {ErrTimeout}]

BodyNames == <<"A", "B", "C", "D">>

\* accumulation runs: same-host redirect chains whose hops differ in body
\* (empty or not) and in the header block (names in several spellings)
AccumServer ==
    LET bodies == {<< >>} \cup {<<BodyNames[i]>> : i \in 1..MaxBodies}
        blocks == { <<Hdr("server", <<"nginx/", "1.18.0">>)>>,
                    <<Hdr("Server", <<"apache">>)>>,
                    <<Hdr("X-Gen", <<"wp">>), Hdr("SERVER", <<"iis">>)>> }
    IN  [responses |->
            {Resp(302, <<Hdr("location", <<"/">>)>> \o h, b) :
                h \in blocks, b \in bodies}
            \cup {Resp(200, h, b) : h \in blocks, b \in bodies},
         errors |-> {ErrTimeout}]

(***************************************************************************)
(* Implication closure (detector.go).  A result map is seen as a function  *)
(* from technology names to versions.                                      *)
(***************************************************************************)
\* the names the body of the range adds when it visits technology t
ImpliedBy(fps, t) ==
    IF t \in DOMAIN fps THEN Range(fps[t].Implies) ELSE {}

\* one range over the result map: the key sets it may end with.  Every
\* entry present when the range starts is visited, an entry created during
\* the range may be visited or skipped, in any order.
RECURSIVE PassFrom(_, _, _, _)
PassFrom(fps, start, cur, visited) ==
    (IF start \subseteq visited THEN {cur} ELSE {})
    \cup UNION {PassFrom(fps, start, cur \cup ImpliedBy(fps, v),
                         visited \cup {v}) : v \in cur \ visited}

\* a variant of the loop that makes one pass only
\* a variant of changed without the alreadyDetected test: set when a
\* technology of the results implies anything
ChangedByAnyImplies(fps, before, after) ==
    \E t \in after : ImpliedBy(fps, t) # {}

\* changed at the end of a pass: a technology was inserted
Changed(fps, before, after) == after # before

AddImpliedOnePass(fps, names) == PassFrom(fps, names, names, {})

\* for changed { ... }: the key sets the loop may end with
RECURSIVE AddImpliedFrom(_, _)
AddImpliedFrom(fps, names) ==
    UNION {IF out = names THEN {names} ELSE AddImpliedFrom(fps, out) :
              out \in PassFrom(fps, names, names, {})}

\* a variant that adds what the given technologies imply themselves
addImpliedDirect(fps, res) ==
    {[t \in DOMAIN res \cup UNION {ImpliedBy(fps, d) : d \in DOMAIN res} |->
        IF t \in DOMAIN res THEN res[t] ELSE << >>]}

\* addImpliedTechnologies: the maps it may return
addImpliedTechnologies(fps, res) ==
    {[t \in names |-> IF t \in DOMAIN res THEN res[t] ELSE << >>] :
        names \in AddImpliedFrom(fps, DOMAIN res)}

\* a fingerprint that only implies
Implying(implies) == [Implies |-> implies, Paths |-> << >>]

\* the store of the closure runs: a chain of four, a cycle at its end, a
\* technology that implies itself, and an implied name without fingerprint
ImpliesStore ==
    [t \in {"WooCommerce", "WordPress", "PHP", "Zend", "Nginx"} |->
       CASE t = "WooCommerce" -> Implying(<<"WordPress">>)
         [] t = "WordPress"   -> Implying(<<"PHP", "MySQL">>)
         [] t = "PHP"         -> Implying(<<"Zend">>)
         [] t = "Zend"        -> Implying(<<"PHP">>)
         [] t = "Nginx"       -> Implying(<<"Nginx">>)]

\* the result maps over the technologies of a store: each detected or not,
\* with or without a version
ResultMaps(fps) ==
    UNION {[names -> {<< >>, <<"2.0">>}] : names \in SUBSET DOMAIN fps}

(***************************************************************************)
(* Browser stage (DetectBrowser).  A script is a string, "" when the probe *)
(* has none.  A page says what the scripts evaluate to on it: detects are  *)
(* the scripts that return true, errors those whose evaluation fails,      *)
(* versions what the version scripts return.  A result map points to       *)
(* Technology objects of the heap; entry is what the map holds for one     *)
(* technology: [present, version].                                         *)
(***************************************************************************)
BrowserProbe(path, detection, version) ==
    [Path |-> path, Detection |-> detection, Version |-> version]

HasDetectionCapability(bp) == bp.Detection # ""

HasVersionCapability(bp) == bp.Version # ""

Entry(present, version) == [present |-> present, version |-> version]

\* ShouldRunBrowserDetection, results[techName] being entry
ShouldRunBrowserDetection(entry, probe) ==
    IF ~entry.present THEN HasDetectionCapability(probe)
    ELSE IF entry.version # << >> THEN FALSE
    ELSE HasVersionCapability(probe)

\* "Run detection script if present"
ScriptDetected(probe, page) ==
    /\ probe.Detection # ""
    /\ probe.Detection \notin page.errors
    /\ probe.Detection \in page.detects

\* "Run version extraction script if needed"
ScriptVersion(probe, entry, page) ==
    IF /\ ScriptDetected(probe, page) \/ (entry.present /\ probe.Version # "")
       /\ probe.Version # ""
       /\ probe.Version \notin page.errors
    THEN page.versions[probe.Version]
    ELSE << >>

\* a variant that adds the technology whether or not it was detected
UpdateResultsAlwaysAdd(entry, detected, version) ==
    IF ~entry.present
    THEN [entry |-> Entry(TRUE, version), break |-> TRUE]
    ELSE IF version # << >> /\ entry.version = << >>
    THEN [entry |-> Entry(TRUE, version), break |-> TRUE]
    ELSE [entry |-> entry, break |-> detected]

\* "Update results": the entry afterwards, and whether the probe loop breaks
UpdateResults(entry, detected, version) ==
    IF detected
    THEN [entry |-> IF ~entry.present THEN Entry(TRUE, version)
                    ELSE IF version # << >> /\ entry.version = << >>
                    THEN Entry(TRUE, version)
                    ELSE entry,
          break |-> TRUE]
    ELSE IF version # << >> /\ entry.present /\ entry.version = << >>
    THEN [entry |-> Entry(TRUE, version), break |-> TRUE]
    ELSE [entry |-> entry, break |-> FALSE]

\* the probe loop of one technology from probe i on
RECURSIVE BrowserProbesFrom(_, _, _, _)
BrowserProbesFrom(probes, i, entry, page) ==
    IF i > Len(probes) THEN entry
    ELSE IF ~ShouldRunBrowserDetection(entry, probes[i])
    THEN BrowserProbesFrom(probes, i + 1, entry, page)
    ELSE LET update == UpdateResults(entry,
                           ScriptDetected(probes[i], page),
                           ScriptVersion(probes[i], entry, page))
         IN  IF update.break THEN update.entry
             ELSE BrowserProbesFrom(probes, i + 1, update.entry, page)

\* ClassifyBrowserByPath: the slices it may return
ClassifyBrowserByPath(fps) ==
    LET paths == UNION {{fps[t].Browser[i].Path : i \in DOMAIN fps[t].Browser} :
                           t \in DOMAIN fps}
        Class(path) ==
            [Path |-> path,
             Technologies |->
                [t \in {u \in DOMAIN fps :
                           \E i \in DOMAIN fps[u].Browser :
                              fps[u].Browser[i].Path = path} |->
                   SelectSeq(fps[t].Browser, LAMBDA bp : bp.Path = path)]]
    IN  {[n \in 1..Cardinality(paths) |-> Class(order[n])] :
            order \in Orders(paths)}

\* the objects of the heap
HttpObject(t) == <<"http", t>>

BrowserObject(t) == <<"browser", t>>

\* what a result map holds for technology t
EntryOf(map, objects, t) ==
    IF t \in DOMAIN map THEN Entry(TRUE, objects[map[t]].Version)
    ELSE Entry(FALSE, << >>)

\* a result map seen as name -> version
View(map, objects) == [t \in DOMAIN map |-> objects[map[t]].Version]

\* a variant of the copy that copies nothing
CopyNothing(map) == [t \in {} |-> HttpObject(t)]

\* "Copy existing HTTP results": the entries point to the same objects
CopyResults(map) == [t \in DOMAIN map |-> map[t]]

\* "Check all technologies for this path": the map and the heap afterwards.
\* The probe loop of a technology reads and writes the entry of that
\* technology only, so the order of the range does not matter.
CheckPage(map, objects, technologies, page) ==
    LET after(t) == BrowserProbesFrom(technologies[t], 1,
                                      EntryOf(map, objects, t), page)
        added    == {t \in DOMAIN technologies \ DOMAIN map : after(t).present}
        newMap   == [t \in DOMAIN map \cup added |->
                       IF t \in DOMAIN map THEN map[t] ELSE BrowserObject(t)]
    IN  [map  |-> newMap,
         heap |-> [a \in DOMAIN objects \cup {BrowserObject(t) : t \in added} |->
                     LET t == a[2]
                     IN  IF /\ t \in DOMAIN technologies
                            /\ t \in DOMAIN newMap
                            /\ newMap[t] = a
                         THEN [Name |-> t, Version |-> after(t).version]
                         ELSE objects[a]]]

\* a fingerprint with browser probes
Fingerprint(implies, browser) ==
    [Implies |-> implies, Paths |-> << >>, Browser |-> browser]

\* the store of the browser runs: WordPress has a probe with both scripts
\* and a version-only probe on another path, React a detection-only probe
\* and one with both scripts, Nginx a version-only probe
BrowserStore ==
    [t \in {"WordPress", "React", "Nginx"} |->
       CASE t = "WordPress" ->
              Fingerprint(<<"PHP">>,
                 << BrowserProbe(RootPath, "wpDetect", "wpVersion"),
                    BrowserProbe(ExtraPath(1), "", "wpVersion") >>)
         [] t = "React" ->
              Fingerprint(<< >>,
                 << BrowserProbe(RootPath, "reactDetect", ""),
                    BrowserProbe(ExtraPath(1), "reactDetect", "reactVersion") >>)
         [] t = "Nginx" ->
              Fingerprint(<< >>,
                 << BrowserProbe(RootPath, "", "nginxVersion") >>)]

\* the pages a browser path may load
Pages ==
    {[detects |-> d, errors |-> e,
      versions |-> [v \in {"wpVersion", "reactVersion", "nginxVersion"} |->
                      CASE v = "wpVersion" -> wp
                        [] v = "reactVersion" -> re
                        [] v = "nginxVersion" -> ng]] :
        d \in SUBSET {"wpDetect", "reactDetect"},
        e \in {{}, {"wpVersion", "reactDetect"}},
        wp \in {<< >>, <<"6.1">>},
        re \in {<< >>, <<"18">>},
        ng \in {<< >>, <<"1.18.0">>}}

(***************************************************************************)
(* Inputs of the evaluator runs: rule expressions as json.Unmarshal        *)
(* delivers them, and the contexts they are evaluated against.             *)
(***************************************************************************)
\* every order in which the ranges over the objects of a JSON value may
\* visit their keys: the value with the keys of each object rearranged
RECURSIVE RangeOrders(_)
RECURSIVE RangeOrdersEach(_)

\* the sequences whose i-th element is a rearrangement of vs[i]
RangeOrdersEach(vs) ==
    IF vs = << >> THEN {<< >>}
    ELSE {<<h>> \o t : h \in RangeOrders(Head(vs)),
                       t \in RangeOrdersEach(Tail(vs))}

RangeOrders(value) ==
    CASE value.t = "obj" ->
           {Obj([i \in 1..Len(value.kv) |->
                   [k |-> value.kv[o[i]].k, v |-> c[o[i]]]]) :
               o \in Orders(1..Len(value.kv)),
               c \in RangeOrdersEach([i \in 1..Len(value.kv) |-> value.kv[i].v])}
      [] value.t = "list" -> {List(c) : c \in RangeOrdersEach(value.l)}
      [] OTHER -> {value}

\* {field: {"$in": operand}} and {field: {"$nin": operand}}
InCond(field, operand) == Obj1(field, Obj1(<<"$in">>, operand))

NinCond(field, operand) == Obj1(field, Obj1(<<"$nin">>, operand))

\* {"$not": {"$not": x}}
NotNot(x) == Obj1(<<"$not">>, Obj1(<<"$not">>, x))

\* the children of the combinators: conditions with and without a version,
\* an object with two fields (the schema guide's multi-field form), a
\* nested combinator, and a string where an object is expected
EvalChildren ==
    { RegexCond(<<"body">>, <<"WordPress", "(v)", VersionMarker, "\\1">>),
      RegexCond(Field("server"), <<"nginx/", "(v)", VersionMarker, "\\1">>),
      RegexCond(<<"body">>, <<"WordPress">>),
      Obj1(<<"body">>, Obj1(<<"$eq">>, Str(<<"hello">>))),
      Obj(<< [k |-> <<"body">>,
              v |-> Obj1(<<"$regex">>, Str(<<"WordPress">>))],
             [k |-> Field("server"),
              v |-> Obj1(<<"$regex">>, Str(<<"apache">>))] >>),
      Obj1(<<"$or">>,
           List(<< RegexCond(<<"body">>, <<"hello">>),
                   RegexCond(Field("server"),
                             <<"nginx/", "(v)", VersionMarker, "\\1">>) >>)),
      Str(<<"x">>) }

\* the child lists of length n
ChildLists(n) == [1..n -> EvalChildren]

\* fields and operands of the $in / $nin conditions
EvalFields == { <<"body">>, Field("server"), Field("x-none") }

EvalOperands ==
    { List(<< >>),
      List(<<Str(<<"hello">>)>>),
      List(<<Str(<<"x">>), Str(<<"hello">>)>>),
      List(<<Str(<<"apache">>), Str(<<"WordPress", "2.0">>)>>),
      List(<<Bool(TRUE)>>),
      Str(<<"hello">>) }

\* the operator keys of the conditions: those of the switch and a misspelt
\* one
EvalOperators == Operators \cup {<<"$regx">>}

\* patterns: plain, anchored with a group and a marker, a group without a
\* marker, a marker without a group, an unbalanced parenthesis
EvalPatterns ==
    { <<"WordPress">>,
      <<"^", "nginx/", "(v)", "$", VersionMarker, "\\1">>,
      <<"nginx/", "(v)">>,
      <<"nginx/", VersionMarker, "\\1">>,
      <<"(", "WordPress">> }

\* every operand a condition is written with, fitting its operator or not
AllOperands ==
    EvalOperands \cup {Str(pattern) : pattern \in EvalPatterns}
                 \cup {Bool(TRUE), Bool(FALSE)}

\* the field conditions {field: {operator: operand}}, a condition that is
\* not an object, and an operator object with two keys
FieldConditions ==
    {Obj1(f, Obj1(operator, operand)) :
        f \in EvalFields, operator \in EvalOperators, operand \in AllOperands}
    \cup {Obj1(f, Str(<<"x">>)) : f \in EvalFields}
    \cup {Obj1(<<"body">>,
               Obj(<< [k |-> <<"$regex">>, v |-> Str(<<"WordPress">>)],
                      [k |-> <<"$eq">>, v |-> Str(<<"hello">>)] >>))}

\* combinators whose value has the wrong shape
MisshapenCombinators ==
    {Obj1(key, Str(<<"x">>)) :
        key \in {<<"$and">>, <<"$or">>, <<"$not">>, <<"$nor">>}}
    \cup {Obj1(<<"$not">>, List(<< >>)),
          Obj1(<<"$or">>, Obj1(<<"body">>, Obj1(<<"$eq">>, Str(<<"hello">>))))}

\* the expressions evaluated: the object children, the list combinators
\* over every child list, $not over every child, the field conditions and
\* the misshapen combinators on their own, under $not and under $nor
EvalQueries ==
    {c \in EvalChildren : c.t = "obj"}
    \cup {Obj1(key, List(l)) :
             key \in {<<"$and">>, <<"$or">>, <<"$nor">>},
             l \in UNION {ChildLists(n) : n \in 0..MaxChildren}}
    \cup {Obj1(<<"$not">>, c) : c \in EvalChildren}
    \cup FieldConditions
    \cup MisshapenCombinators
    \cup {Obj1(<<"$not">>, c) : c \in FieldConditions \cup MisshapenCombinators}
    \cup {Obj1(<<"$nor">>, List(<<c>>)) :
             c \in FieldConditions \cup MisshapenCombinators}

\* the calls made in one run: an expression and its double negation, an
\* expression twice, or an $in condition and the $nin condition on the
\* same field and operand
EvalInputs ==
    {<<x, NotNot(x)>> : x \in EvalQueries}
    \cup {<<x, x>> : x \in EvalQueries}
    \cup {<<InCond(f, operand), NinCond(f, operand)>> :
             f \in EvalFields, operand \in EvalOperands}

Context(body, headers) ==
    [Body |-> body, Headers |-> headers, StatusCode |-> 200]

EvalContexts ==
    { Context(<<"WordPress", "2.0">>, [k \in {"Server"} |-> <<"nginx/", "1.18.0">>]),
      Context(<<"WordPress">>, [k \in {"Server"} |-> <<"apache">>]),
      Context(<<"hello">>, EmptyHeaders),
      Context(<< >>, [k \in {"Server"} |-> <<"nginx/", "1.18.0">>]) }

(***************************************************************************)
(* State.                                                                  *)
(***************************************************************************)
VARIABLES
    fingerprints,        \* Detector.fingerprints, the rule store
    server,              \* the responses and errors the target can produce
    pc,                  \* "idle", "request" (a request is in flight),
                         \* "sleep" (in the backoff), "done"
    pathClassifications, \* DetectHTTP: the classified paths
    idx,                 \* DetectHTTP: position of the path loop
    results,             \* DetectHTTP: technology name -> version
    failedPaths,         \* DetectHTTP: failedPaths
    retry,               \* requestWithRetry: retry
    lastErr,             \* requestWithRetry: lastErr
    currentURL,          \* makeRequest: currentURL
    redirectCount,       \* makeRequest: redirectCount
    allBodies,           \* makeRequest: allBodies
    allHeaders,          \* makeRequest: allHeaders
    \* history of the run
    chain,               \* requests and responses of the current makeRequest
    trace,               \* attempts and sleeps of the current requestWithRetry
    lastFetch,           \* how the last completed requestWithRetry ended
    evaluated,           \* paths fetched successfully, probes evaluated
    requested,           \* paths for which a request was issued
    nreq,                \* number of HTTP requests issued
    fatalAttempt,        \* an HTTP attempt failed with a fatal network error
    fatalAt,             \* position of the fetch that failed fatally, else 0
    fetched,             \* paths requestWithRetry was called for, in order
    contexts,            \* path -> the context its fetch returned
    discarded,           \* the failed attempts of the last path: whether
                         \* a body had been kept when the attempt failed
    \* the evaluator on its own
    queries,             \* the rule expressions to evaluate, in turn
    qctx,                \* the DetectionContext they are evaluated against
    evals,               \* the calls of Evaluate made so far
    \* Detect after DetectHTTP has returned
    useBrowser,          \* Detect: useBrowser
    heap,                \* the Technology objects the maps point to
    httpResults,         \* Detect: httpResults, name -> object
    browserResults,      \* DetectBrowser: results, name -> object
    browserPaths,        \* DetectBrowser: pathClassifications
    bidx,                \* DetectBrowser: position of the path loop
    final,               \* Detect: the technologies returned
    httpBefore,          \* name -> version when DetectBrowser was called
    loaded,              \* browser paths that loaded, with the page
    closures,            \* the maps addImpliedTechnologies returned
    \* addImpliedTechnologies pass by pass
    implied,             \* the names in results
    changed,             \* changed
    npass,               \* passes of the outer loop made
    \* DetectHTTP for given fetch outcomes
    outcomes,            \* path -> how its fetch ends
    orderRuns,           \* what DetectHTTP returned, one entry per call
    \* several calls of Detect on one Detector
    runs,                \* run -> the locals of its call
    maps                 \* the result maps of the calls

vars == <<fingerprints, server, pc, pathClassifications, idx, results,
          failedPaths, retry, lastErr, currentURL, redirectCount, allBodies,
          allHeaders, chain, trace, lastFetch, evaluated, requested, nreq,
          fatalAttempt, fatalAt, fetched, contexts, discarded, queries,
          qctx, evals, useBrowser, heap, httpResults, browserResults,
          browserPaths, bidx, final, httpBefore, loaded, closures, implied,
          changed, npass, outcomes, orderRuns, runs, maps>>

\* the variables of DetectHTTP and its callees
httpVars == <<pc, pathClassifications, idx, results, failedPaths, retry,
              lastErr, currentURL, redirectCount, allBodies, allHeaders,
              chain, trace, lastFetch, evaluated, requested, nreq,
              fatalAttempt, fatalAt, fetched, contexts, discarded>>

\* the variables of DetectHTTP but the position of Detect
requestVars == <<pathClassifications, idx, results, failedPaths, retry,
                 lastErr, currentURL, redirectCount, allBodies, allHeaders,
                 chain, trace, lastFetch, evaluated, requested, nreq,
                 fatalAttempt, fatalAt, fetched, contexts, discarded>>

\* the variables of the later stages of Detect
stageVars == <<useBrowser, heap, httpResults, browserResults, browserPaths,
               bidx, final, httpBefore, loaded, closures>>

\* the variables of the pass-by-pass closure, of DetectHTTP for given fetch
\* outcomes and of the concurrent calls
laterVars == <<implied, changed, npass, outcomes, orderRuns, runs, maps>>

\* the variables of the evaluator runs
evalVars == <<queries, qctx, evals>>

NoResults == [t \in {} |-> << >>]

\* no path fetched yet
NoContexts == [p \in {} |-> << >>]

NoContext == [Body |-> << >>, Headers |-> EmptyHeaders, StatusCode |-> 0]

NoProbes == [t \in {} |-> {}]

NoFetch == [valid |-> FALSE, path |-> << >>, ok |-> FALSE, err |-> << >>,
            ctx |-> NoContext, trace |-> << >>, chain |-> << >>,
            tried |-> NoProbes, rules |-> NoProbes]

Attempt(ok, err) == [ev |-> "attempt", ok |-> ok, err |-> err, d |-> 0]

Sleep(d) == [ev |-> "sleep", ok |-> FALSE, err |-> << >>, d |-> d]

\* the Detector outside DetectHTTP, res being the result map at hand
InitDetectorAt(store, srv, res, at) ==
    /\ fingerprints = store
    /\ server = srv
    /\ pc = at
    /\ pathClassifications = << >>
    /\ idx = 0
    /\ results = res
    /\ failedPaths = << >>
    /\ retry = 0
    /\ lastErr = << >>
    /\ currentURL = << >>
    /\ redirectCount = 0
    /\ allBodies = << >>
    /\ allHeaders = EmptyHeaders
    /\ chain = << >>
    /\ trace = << >>
    /\ lastFetch = NoFetch
    /\ evaluated = {}
    /\ requested = {}
    /\ nreq = 0
    /\ fatalAttempt = FALSE
    /\ fatalAt = 0
    /\ fetched = << >>
    /\ contexts = NoContexts
    /\ discarded = << >>

InitDetectorWith(store, srv, res) == InitDetectorAt(store, srv, res, "idle")

\* the Detector before any call of DetectHTTP
InitDetector(store, srv) == InitDetectorWith(store, srv, NoResults)

\* no call of Evaluate on its own
InitNoEval ==
    /\ queries = << >>
    /\ qctx = NoContext
    /\ evals = << >>

\* the later stages of Detect have not begun
InitNoStage ==
    /\ useBrowser = FALSE
    /\ heap = << >>
    /\ httpResults = NoResults
    /\ browserResults = NoResults
    /\ browserPaths = << >>
    /\ bidx = 0
    /\ final = NoResults
    /\ httpBefore = NoResults
    /\ loaded = {}
    /\ closures = << >>

\* none of the other runs has begun
InitNoLater ==
    /\ implied = {}
    /\ changed = FALSE
    /\ npass = 0
    /\ outcomes = NoContexts
    /\ orderRuns = << >>
    /\ runs = << >>
    /\ maps = << >>

InitWith(store, srv) ==
    /\ InitDetector(store, srv)
    /\ InitNoEval
    /\ InitNoStage
    /\ InitNoLater

Init == InitWith(MultiStore, DetectServer)

InitRedirect == InitWith(SingleStore, RedirectServer)

InitAccum == InitWith(SingleStore, AccumServer)

InitProbes == InitWith(ProbeStore, ProbeServer)

InitStatus == InitWith(MultiStore, StatusServer)

InitLoop == InitWith(ProbeStore, LoopServer)

\* DetectHTTP has returned res
InitDetect ==
    /\ \E res \in ResultMaps(BrowserStore), browser \in BOOLEAN :
          /\ InitDetectorAt(BrowserStore, DetectServer, res, "done")
          /\ useBrowser = browser
          /\ httpResults = [t \in DOMAIN res |-> HttpObject(t)]
          /\ heap = [a \in {HttpObject(t) : t \in DOMAIN res} |->
                       [Name |-> a[2], Version |-> res[a[2]]]]
    /\ browserResults = NoResults
    /\ browserPaths = << >>
    /\ bidx = 0
    /\ final = NoResults
    /\ httpBefore = NoResults
    /\ loaded = {}
    /\ closures = << >>
    /\ InitNoEval
    /\ InitNoLater

\* addImpliedTechnologies on its own: the result map is given
InitImplies ==
    /\ \E res \in ResultMaps(ImpliesStore) :
          InitDetectorWith(ImpliesStore, DetectServer, res)
    /\ InitNoEval
    /\ InitNoStage
    /\ InitNoLater

\* addImpliedTechnologies is entered with the result map: changed := true
InitPasses ==
    /\ \E res \in ResultMaps(ImpliesStore) :
          /\ InitDetectorWith(ImpliesStore, DetectServer, res)
          /\ implied = DOMAIN res
    /\ changed = TRUE
    /\ npass = 0
    /\ outcomes = NoContexts
    /\ orderRuns = << >>
    /\ runs = << >>
    /\ maps = << >>
    /\ InitNoEval
    /\ InitNoStage

(***************************************************************************)
(* DetectHTTP as a function of the order of the classified paths and of    *)
(* what requestWithRetry returns for each path.                            *)
(***************************************************************************)
\* requestWithRetry returns ctx, or the error err
Fetched(ctx) == [ok |-> TRUE, ctx |-> ctx, err |-> << >>]

FetchFailed(err) == [ok |-> FALSE, ctx |-> NoContext, err |-> Wrap(err)]

\* the path loop of DetectHTTP from position i on
RECURSIVE PathLoopFrom(_, _, _, _, _)
PathLoopFrom(classes, i, res, failed, out) ==
    IF i > Len(classes) THEN [results |-> res, failedPaths |-> failed]
    ELSE LET class == classes[i]
             ret   == out[class.Path]
         IN  IF ~ret.ok
             THEN IF AfterFailure(ret.err) = "break"
                  THEN [results |-> res,
                        failedPaths |->
                           MarkRemaining(Append(failed, class.Path), classes)]
                  ELSE PathLoopFrom(classes, i + 1, res,
                                    Append(failed, class.Path), out)
             ELSE PathLoopFrom(classes, i + 1,
                               EvalProbes(res, class.Technologies, ret.ctx),
                               failed, out)

\* what DetectHTTP returns
DetectHTTPWith(classes, out) == PathLoopFrom(classes, 1, NoResults, << >>, out)

\* what a fetch may return: a page that shows WordPress and its version, a
\* page that shows neither, a timeout, an unknown host
FetchOutcomes ==
    { Fetched(MakeContext(<< <<"WordPress", "2.0">> >>, EmptyHeaders)),
      Fetched(MakeContext(<< <<"hello">> >>, EmptyHeaders)),
      FetchFailed(ErrTimeout),
      FetchFailed(ErrNoHost) }

\* the paths the probes of a store name
StorePaths(store) ==
    UNION {{store[t].Paths[i].Path : i \in DOMAIN store[t].Paths} :
              t \in DOMAIN store}

\* the fetch outcome of every path is given
InitOrder ==
    /\ InitDetector(MultiStore, DetectServer)
    /\ outcomes \in [StorePaths(MultiStore) -> FetchOutcomes]
    /\ orderRuns = << >>
    /\ implied = {}
    /\ changed = FALSE
    /\ npass = 0
    /\ runs = << >>
    /\ maps = << >>
    /\ InitNoEval
    /\ InitNoStage

\* the evaluator on its own: the expressions and the context are given
InitEval ==
    /\ InitDetector(SingleStore, DetectServer)
    /\ queries \in EvalInputs
    /\ qctx \in EvalContexts
    /\ evals = << >>
    /\ InitNoStage
    /\ InitNoLater

(***************************************************************************)
(* Steps.  A step runs the code from one blocking point (an HTTP request   *)
(* in flight, a backoff sleep) to the next.                                *)
(***************************************************************************)
\* a variant in which the accumulation outlives the attempt
StartAttemptKeep(classes, i) ==
    /\ currentURL' = FullURL(BaseURL, classes[i].Path)
    /\ redirectCount' = 0
    /\ allBodies' = (IF retry' = 0 THEN << >> ELSE allBodies)
    /\ allHeaders' = (IF retry' = 0 THEN EmptyHeaders ELSE allHeaders)
    /\ chain' = << >>
    /\ pc' = "request"
    /\ nreq' = nreq + 1
    /\ requested' = requested \cup {classes[i].Path}

\* makeRequest is entered for the classification at position i: the local
\* state is fresh and the first request goes out
StartAttempt(classes, i) ==
    /\ currentURL' = FullURL(BaseURL, classes[i].Path)
    /\ redirectCount' = 0
    /\ allBodies' = << >>
    /\ allHeaders' = EmptyHeaders
    /\ chain' = << >>
    /\ pc' = "request"
    /\ nreq' = nreq + 1
    /\ requested' = requested \cup {classes[i].Path}

\* the path loop reaches position i: requestWithRetry is called for that
\* classification, or the loop is over and DetectHTTP returns
NextPath(classes, i) ==
    /\ idx' = i
    /\ retry' = 0
    /\ lastErr' = << >>
    /\ trace' = << >>
    /\ IF i <= Len(classes)
       THEN /\ fetched' = Append(fetched, classes[i].Path)
            /\ StartAttempt(classes, i)
       ELSE /\ pc' = "done"
            /\ UNCHANGED <<currentURL, redirectCount, allBodies, allHeaders,
                           chain, nreq, requested, fetched>>

\* DetectHTTP is called: classify, then enter the path loop
StartDetect ==
    /\ pc = "idle"
    /\ \E classes \in ClassifyByPath(fingerprints) :
          /\ pathClassifications' = classes
          /\ NextPath(classes, 1)
    /\ results' = NoResults
    /\ failedPaths' = << >>
    /\ contexts' = NoContexts
    /\ discarded' = << >>
    /\ UNCHANGED <<fingerprints, server, lastFetch, evaluated, fatalAttempt,
                   fatalAt>>
    /\ UNCHANGED evalVars
    /\ UNCHANGED stageVars
    /\ UNCHANGED laterVars

\* the request in flight is answered with response resp
Respond(resp) ==
    LET class    == pathClassifications[idx]
        headers  == AccumHeaders(allHeaders, RespHeader(resp))
        bodies   == AccumBodies(allBodies, resp.body)
        target   == RedirectTarget(currentURL, redirectCount, resp)
        hops     == Append(chain, [url |-> currentURL,
                                   method |-> RequestMethod(class.RequestConf),
                                   resp |-> resp])
        ctx      == MakeContext(bodies, headers)
    IN  /\ pc = "request"
        /\ IF target.follow
           THEN \* "Follow the redirect": the next request goes out
                /\ currentURL' = target.url
                /\ redirectCount' = redirectCount + 1
                /\ allBodies' = bodies
                /\ allHeaders' = headers
                /\ chain' = hops
                /\ nreq' = nreq + 1
                /\ UNCHANGED <<pc, idx, results, retry, lastErr, trace,
                               lastFetch, evaluated, requested, fetched,
                               contexts, discarded>>
           ELSE \* makeRequest and requestWithRetry return ctx, the probes
                \* of the path are evaluated, the path loop goes on
                /\ results' = EvalProbes(results, class.Technologies, ctx)
                /\ evaluated' = evaluated \cup {class.Path}
                /\ contexts' = [p \in DOMAIN contexts \cup {class.Path} |->
                                  IF p = class.Path THEN ctx ELSE contexts[p]]
                /\ discarded' = IF retry = 0 THEN << >> ELSE discarded
                /\ lastFetch' = [valid |-> TRUE, path |-> class.Path,
                                 ok |-> TRUE, err |-> << >>, ctx |-> ctx,
                                 trace |-> Append(trace, Attempt(TRUE, << >>)),
                                 chain |-> hops,
                                 tried |-> ProbesTried(class.Technologies, ctx),
                                 rules |-> RulesTried(class.Technologies, ctx)]
                /\ NextPath(pathClassifications, idx + 1)
        /\ UNCHANGED <<fingerprints, server, pathClassifications, failedPaths,
                       fatalAttempt, fatalAt>>
        /\ UNCHANGED evalVars
        /\ UNCHANGED stageVars
        /\ UNCHANGED laterVars

\* the request in flight fails with error err (client.Do or io.ReadAll)
Fail(err) ==
    LET class   == pathClassifications[idx]
        wrapped == Wrap(err)
        failed  == Append(failedPaths, class.Path)
        done    == [valid |-> TRUE, path |-> class.Path, ok |-> FALSE,
                    err |-> wrapped, ctx |-> NoContext,
                    trace |-> Append(trace, Attempt(FALSE, err)),
                    chain |-> chain, tried |-> NoProbes, rules |-> NoProbes]
    IN  /\ pc = "request"
        /\ fatalAttempt' = (fatalAttempt \/ IsFatal(err))
        /\ discarded' = Append(IF retry = 0 THEN << >> ELSE discarded,
                               allBodies # << >>)
        /\ IF ShouldBackoff(retry)
           THEN \* time.Sleep(backoff)
                /\ pc' = "sleep"
                /\ lastErr' = err
                /\ trace' = Append(Append(trace, Attempt(FALSE, err)),
                                   Sleep(Backoff(retry)))
                /\ UNCHANGED <<idx, failedPaths, retry, currentURL,
                               redirectCount, allBodies, allHeaders, chain,
                               lastFetch, requested, nreq, fatalAt, fetched>>
           ELSE \* requestWithRetry returns the wrapped error
                /\ lastFetch' = done
                /\ fatalAt' = IF IsFatal(wrapped) /\ fatalAt = 0
                              THEN idx ELSE fatalAt
                /\ IF AfterFailure(wrapped) = "break"
                   THEN /\ failedPaths' = MarkRemaining(failed, pathClassifications)
                        /\ pc' = "done"
                        /\ lastErr' = err
                        /\ trace' = done.trace
                        /\ UNCHANGED <<idx, retry, currentURL, redirectCount,
                                       allBodies, allHeaders, chain, requested,
                                       nreq, fetched>>
                   ELSE /\ failedPaths' = failed
                        /\ NextPath(pathClassifications, idx + 1)
        /\ UNCHANGED <<fingerprints, server, pathClassifications, results,
                       evaluated, contexts>>
        /\ UNCHANGED evalVars
        /\ UNCHANGED stageVars
        /\ UNCHANGED laterVars

\* the backoff sleep is over: the retry loop makes the next attempt
Wake ==
    /\ pc = "sleep"
    /\ retry' = retry + 1
    /\ StartAttempt(pathClassifications, idx)
    /\ UNCHANGED <<fingerprints, server, pathClassifications, idx, results,
                   failedPaths, lastErr, trace, lastFetch, evaluated,
                   fatalAttempt, fatalAt, fetched, contexts, discarded>>
    /\ UNCHANGED evalVars
    /\ UNCHANGED stageVars
    /\ UNCHANGED laterVars

\* the target answers the request in flight
Response == \E resp \in server.responses : Respond(resp)

\* the request in flight fails
Failure == \E err \in server.errors : Fail(err)

\* Evaluate is called on the next expression: the ranges over its objects
\* visit the keys in some order
EvaluateNext ==
    /\ Len(evals) < Len(queries)
    /\ \E visit \in RangeOrders(queries[Len(evals) + 1]) :
          evals' = Append(evals,
                          [query |-> queries[Len(evals) + 1],
                           visit |-> visit,
                           res   |-> Evaluate(visit, qctx),
                           tried |-> ChildrenTried(visit, qctx)])
    /\ UNCHANGED <<fingerprints, server, pc, pathClassifications, idx,
                   results, failedPaths, retry, lastErr, currentURL,
                   redirectCount, allBodies, allHeaders, chain, trace,
                   lastFetch, evaluated, requested, nreq, fatalAttempt,
                   fatalAt, fetched, contexts, discarded, queries, qctx>>
    /\ UNCHANGED stageVars
    /\ UNCHANGED laterVars

NextEval == EvaluateNext

\* addImpliedTechnologies is called, first on the result map and then on
\* the map it returned
ApplyImplied ==
    /\ Len(closures) < 2
    /\ \E out \in addImpliedTechnologies(fingerprints,
                     IF closures = << >> THEN results
                     ELSE closures[Len(closures)]) :
          closures' = Append(closures, out)
    /\ UNCHANGED <<fingerprints, server, queries, qctx, evals, useBrowser,
                   heap, httpResults, browserResults, browserPaths, bidx,
                   final, httpBefore, loaded>>
    /\ UNCHANGED httpVars
    /\ UNCHANGED laterVars

NextImplies == ApplyImplied

\* one pass of the outer loop of addImpliedTechnologies: changed is reset,
\* the results are ranged over, and changed is set if anything was inserted
Pass ==
    /\ changed
    /\ npass < MaxPasses
    /\ \E out \in PassFrom(fingerprints, implied, implied, {}) :
          /\ implied' = out
          /\ changed' = Changed(fingerprints, implied, out)
    /\ npass' = npass + 1
    /\ UNCHANGED <<fingerprints, server, outcomes, orderRuns, runs, maps>>
    /\ UNCHANGED httpVars
    /\ UNCHANGED evalVars
    /\ UNCHANGED stageVars

NextPasses == Pass

\* DetectHTTP is called, the same fetch outcomes each time
DetectInOrder ==
    /\ Len(orderRuns) < 2
    /\ \E classes \in ClassifyByPath(fingerprints) :
          orderRuns' = Append(orderRuns,
                              [order |-> [i \in DOMAIN classes |->
                                            classes[i].Path],
                               ret   |-> DetectHTTPWith(classes, outcomes)])
    /\ UNCHANGED <<fingerprints, server, implied, changed, npass, outcomes,
                   runs, maps>>
    /\ UNCHANGED httpVars
    /\ UNCHANGED evalVars
    /\ UNCHANGED stageVars

NextOrder == DetectInOrder

(***************************************************************************)
(* Concurrent calls of Detect on one Detector, each for its own target.    *)
(* runs holds the locals of each call (the locals of DetectHTTP,           *)
(* requestWithRetry and makeRequest), maps the result maps the calls       *)
(* allocate.  got is what requestWithRetry has returned to the call for    *)
(* each path, overlapped whether another call was in flight during it.     *)
(***************************************************************************)
\* the calls
Runs == {"a", "b"}

OtherURL == <<"http", ":", "/", "/", "other", "/">>

\* the target of each call
TargetOf(r) == IF r = "a" THEN BaseURL ELSE OtherURL

\* the store of the concurrent calls: two paths, one implied technology
PairStore ==
    [t \in {"Nginx", "WordPress"} |->
       CASE t = "Nginx" ->
              [Implies |-> << >>, Paths |-> <<NginxProbe>>]
         [] t = "WordPress" ->
              [Implies |-> <<"PHP">>,
               Paths |-> <<WordPressProbe(RootPath, Nil),
                           WordPressLoginProbe(ExtraPath(1))>>]]

\* the targets of the concurrent calls: a page that matches the probes, a
\* redirect to the root, a timeout, an unknown host
PairServer ==
    [responses |->
        { Resp(200, <<Hdr("Server", <<"nginx/", "1.18.0">>)>>,
               <<"WordPress", "2.0">>),
          Resp(302, <<Hdr("Location", <<"/">>)>>, << >>) },
     errors |-> {ErrTimeout, ErrNoHost}]

NoReturn == [results |-> NoResults, failedPaths |-> << >>]

\* a call that has not begun
IdleRun(base) ==
    [pc |-> "idle", base |-> base, classes |-> << >>, idx |-> 0, retry |-> 0,
     lastErr |-> << >>, failed |-> << >>, currentURL |-> << >>,
     redirectCount |-> 0, allBodies |-> << >>, allHeaders |-> EmptyHeaders,
     got |-> NoContexts, overlapped |-> FALSE, ret |-> NoReturn]

\* a variant in which the result map is a field of the detector
ResultsMapShared(r) == "a"

\* results := make(map[string]*Technology): the map a call works on is its
\* own
ResultsMap(r) == r

\* makeRequest is entered: fresh locals, the first request goes out
RunAttempt(l) ==
    [l EXCEPT !.pc = "request",
              !.currentURL = FullURL(l.base, l.classes[l.idx].Path),
              !.redirectCount = 0,
              !.allBodies = << >>,
              !.allHeaders = EmptyHeaders]

\* the path loop of the call reaches position i
RunEnter(l, i) ==
    IF i <= Len(l.classes)
    THEN RunAttempt([l EXCEPT !.idx = i, !.retry = 0, !.lastErr = << >>])
    ELSE [l EXCEPT !.idx = i, !.retry = 0, !.lastErr = << >>, !.pc = "done"]

\* requestWithRetry has returned ret for the path of the call
RunGot(l, ret) ==
    [l EXCEPT !.got = [p \in DOMAIN l.got \cup {l.classes[l.idx].Path} |->
                         IF p = l.classes[l.idx].Path THEN ret ELSE l.got[p]]]

\* the call is between its entry and its return
InFlight(l) == l.pc \in {"request", "sleep", "done"}

\* Detect is called for the target of r: DetectHTTP classifies, allocates
\* its result map and enters the path loop
RunStart(r) ==
    /\ runs[r].pc = "idle"
    /\ \E classes \in ClassifyByPath(fingerprints) :
          runs' = [q \in Runs |->
                     IF q = r
                     THEN RunEnter([runs[r] EXCEPT
                                      !.classes = classes,
                                      !.failed = << >>,
                                      !.overlapped =
                                         \E o \in Runs \ {r} : InFlight(runs[o])],
                                   1)
                     ELSE IF InFlight(runs[q])
                          THEN [runs[q] EXCEPT !.overlapped = TRUE]
                          ELSE runs[q]]
    /\ maps' = [maps EXCEPT ![ResultsMap(r)] = NoResults]
    /\ UNCHANGED <<fingerprints, server>>

\* the request in flight of r is answered with resp
RunRespond(r, resp) ==
    LET l       == runs[r]
        class   == l.classes[l.idx]
        headers == AccumHeaders(l.allHeaders, RespHeader(resp))
        bodies  == AccumBodies(l.allBodies, resp.body)
        target  == RedirectTarget(l.currentURL, l.redirectCount, resp)
        ctx     == MakeContext(bodies, headers)
    IN  /\ l.pc = "request"
        /\ IF target.follow
           THEN /\ runs' = [runs EXCEPT ![r] =
                              [l EXCEPT !.currentURL = target.url,
                                        !.redirectCount = l.redirectCount + 1,
                                        !.allBodies = bodies,
                                        !.allHeaders = headers]]
                /\ UNCHANGED maps
           ELSE /\ maps' = [maps EXCEPT ![ResultsMap(r)] =
                              EvalProbes(@, class.Technologies, ctx)]
                /\ runs' = [runs EXCEPT ![r] =
                              RunEnter(RunGot(l, Fetched(ctx)), l.idx + 1)]
        /\ UNCHANGED <<fingerprints, server>>

\* the request in flight of r fails with err
RunFail(r, err) ==
    LET l       == runs[r]
        class   == l.classes[l.idx]
        failed  == Append(l.failed, class.Path)
        given   == RunGot(l, FetchFailed(err))
    IN  /\ l.pc = "request"
        /\ runs' = [runs EXCEPT ![r] =
                      IF ShouldBackoff(l.retry)
                      THEN [l EXCEPT !.pc = "sleep", !.lastErr = err]
                      ELSE IF AfterFailure(Wrap(err)) = "break"
                      THEN [given EXCEPT
                              !.failed = MarkRemaining(failed, l.classes),
                              !.lastErr = err,
                              !.pc = "done"]
                      ELSE RunEnter([given EXCEPT !.failed = failed],
                                    l.idx + 1)]
        /\ UNCHANGED <<fingerprints, server, maps>>

\* the backoff sleep of r is over
RunWake(r) ==
    /\ runs[r].pc = "sleep"
    /\ runs' = [runs EXCEPT ![r] =
                  RunAttempt([runs[r] EXCEPT !.retry = runs[r].retry + 1])]
    /\ UNCHANGED <<fingerprints, server, maps>>

\* DetectHTTP has returned to Detect (no browser): the implied technologies
\* are added to the map and the result is built from it
RunReturn(r) ==
    /\ runs[r].pc = "done"
    /\ \E out \in addImpliedTechnologies(fingerprints, maps[ResultsMap(r)]) :
          /\ maps' = [maps EXCEPT ![ResultsMap(r)] = out]
          /\ runs' = [runs EXCEPT ![r] =
                        [runs[r] EXCEPT
                           !.pc = "returned",
                           !.ret = [results |-> out,
                                    failedPaths |-> runs[r].failed]]]
    /\ UNCHANGED <<fingerprints, server>>

\* one call goes one step; the other calls and runs stand still
Concurrent(step) ==
    /\ step
    /\ UNCHANGED <<implied, changed, npass, outcomes, orderRuns>>
    /\ UNCHANGED httpVars
    /\ UNCHANGED evalVars
    /\ UNCHANGED stageVars

RunStarts == \E r \in Runs : Concurrent(RunStart(r))

RunResponse ==
    \E r \in Runs : \E resp \in server.responses : Concurrent(RunRespond(r, resp))

RunFailure ==
    \E r \in Runs : \E err \in server.errors : Concurrent(RunFail(r, err))

RunWakes == \E r \in Runs : Concurrent(RunWake(r))

RunReturns == \E r \in Runs : Concurrent(RunReturn(r))

NextConcurrent ==
    \/ RunStarts
    \/ RunResponse
    \/ RunFailure
    \/ RunWakes
    \/ RunReturns

\* one Detector, no call begun
InitConcurrent ==
    /\ InitDetector(PairStore, PairServer)
    /\ InitNoEval
    /\ InitNoStage
    /\ implied = {}
    /\ changed = FALSE
    /\ npass = 0
    /\ outcomes = NoContexts
    /\ orderRuns = << >>
    /\ runs = [r \in Runs |-> IdleRun(TargetOf(r))]
    /\ maps = [r \in Runs |-> NoResults]

(***************************************************************************)
(* Detect after DetectHTTP has returned httpResults.  results is the       *)
(* outcome of DetectHTTP as name -> version, httpResults the Go map of     *)
(* pointers to the Technology objects of the heap.                         *)
(***************************************************************************)
\* Detect from the return of DetectBrowser (or of DetectHTTP when no
\* browser is used) on: finalResults = addImpliedTechnologies(finalResults)
ReturnFinal(map, objects) ==
    /\ \E out \in addImpliedTechnologies(fingerprints, View(map, objects)) :
          final' = out
    /\ pc' = "returned"

\* Detect with useBrowser = false
DetectHTTPOnly ==
    /\ pc = "done"
    /\ ~useBrowser
    /\ httpBefore' = View(httpResults, heap)
    /\ ReturnFinal(httpResults, heap)
    /\ UNCHANGED <<fingerprints, server, queries, qctx, evals, useBrowser,
                   heap, httpResults, browserResults, browserPaths, bidx,
                   loaded, closures>>
    /\ UNCHANGED requestVars
    /\ UNCHANGED laterVars

\* Detect with useBrowser = true calls DetectBrowser, which runs up to the
\* first Navigate, or returns when there is no browser probe
DetectBrowser ==
    /\ pc = "done"
    /\ useBrowser
    /\ httpBefore' = View(httpResults, heap)
    /\ browserResults' = CopyResults(httpResults)
    /\ \E classes \in ClassifyBrowserByPath(fingerprints) :
          /\ browserPaths' = classes
          /\ IF Len(classes) = 0
             THEN /\ ReturnFinal(browserResults', heap)
                  /\ bidx' = 0
             ELSE /\ pc' = "navigate"
                  /\ bidx' = 1
                  /\ final' = final
    /\ UNCHANGED <<fingerprints, server, queries, qctx, evals, useBrowser,
                   heap, httpResults, loaded, closures>>
    /\ UNCHANGED requestVars
    /\ UNCHANGED laterVars

\* the path loop goes on to the next path, or DetectBrowser returns
NextBrowserPath(map, objects) ==
    IF bidx < Len(browserPaths)
    THEN /\ bidx' = bidx + 1
         /\ pc' = "navigate"
         /\ final' = final
    ELSE /\ bidx' = bidx
         /\ ReturnFinal(map, objects)

\* Navigate or WaitReady fails: continue
NavigateError ==
    /\ pc = "navigate"
    /\ NextBrowserPath(browserResults, heap)
    /\ UNCHANGED <<fingerprints, server, queries, qctx, evals, useBrowser,
                   heap, httpResults, browserResults, browserPaths,
                   httpBefore, loaded, closures>>
    /\ UNCHANGED requestVars
    /\ UNCHANGED laterVars

\* the page is ready: the probes of the path are run on it
PageReady ==
    /\ pc = "navigate"
    /\ \E page \in Pages :
          LET class   == browserPaths[bidx]
              checked == CheckPage(browserResults, heap,
                                   class.Technologies, page)
          IN  /\ browserResults' = checked.map
              /\ heap' = checked.heap
              /\ loaded' = loaded \cup {[path |-> class.Path, page |-> page]}
              /\ NextBrowserPath(checked.map, checked.heap)
    /\ UNCHANGED <<fingerprints, server, queries, qctx, evals, useBrowser,
                   httpResults, browserPaths, httpBefore, closures>>
    /\ UNCHANGED requestVars
    /\ UNCHANGED laterVars

NextDetect ==
    \/ DetectHTTPOnly
    \/ DetectBrowser
    \/ NavigateError
    \/ PageReady

Next ==
    \/ StartDetect
    \/ Response
    \/ Failure
    \/ Wake

Spec == Init /\ [][Next]_vars

SpecRedirect == InitRedirect /\ [][Next]_vars

SpecAccum == InitAccum /\ [][Next]_vars

SpecProbes == InitProbes /\ [][Next]_vars

SpecStatus == InitStatus /\ [][Next]_vars

\* every HTTP attempt returns, at the latest when the timeout of the client
\* makes it fail, and every sleep ends
SpecLive ==
    /\ InitLoop
    /\ [][Next]_vars
    /\ WF_vars(StartDetect)
    /\ WF_vars(Failure)
    /\ WF_vars(Wake)

SpecEval == InitEval /\ [][NextEval]_vars

SpecImplies == InitImplies /\ [][NextImplies]_vars

SpecOrder == InitOrder /\ [][NextOrder]_vars

SpecConcurrent == InitConcurrent /\ [][NextConcurrent]_vars

\* the loop of addImpliedTechnologies does not block: a pass that can be
\* made is made
SpecPasses == InitPasses /\ [][NextPasses]_vars /\ WF_vars(Pass)

SpecDetect == InitDetect /\ [][NextDetect]_vars

TypeOK ==
    /\ pc \in {"idle", "request", "sleep", "done"}
    /\ idx \in 0..(Len(pathClassifications) + 1)
    /\ retry \in 0..MaxRetries
    /\ redirectCount \in 0..MaxRedirects

(***************************************************************************)
(* Properties of DetectHTTP (checked under Spec).                          *)
(***************************************************************************)
ClassPath(j) == pathClassifications[j].Path

\* the steps in which requestWithRetry returns a non-fatal error
NonFatalFailure ==
    /\ pc = "request"
    /\ lastFetch' # lastFetch
    /\ ~lastFetch'.ok
    /\ ~IsFatal(lastFetch'.err)

\* C1: once the fetch of a classified path has failed with an error whose
\* text contains "no such host" or "network is unreachable", no request is
\* issued for a path that comes later in the path loop, and when DetectHTTP
\* has returned every such path is in failedPaths.
C1_FatalSkipsRemaining ==
    fatalAt # 0 =>
        \A j \in (fatalAt + 1)..Len(pathClassifications) :
            /\ ClassPath(j) \notin requested
            /\ pc = "done" => ClassPath(j) \in Range(failedPaths)

\* a fetch failed fatally while a processed path lies before it and an
\* unprocessed one after it
C1_Witness ==
    /\ pc = "done"
    /\ fatalAt > 1
    /\ fatalAt < Len(pathClassifications)
    /\ IsFatal(lastFetch.err)

\* C2 (as stated): a path whose fetch succeeded and whose probes were
\* evaluated in this run is never in failedPaths.
C2_FailedPathsNeverFetched ==
    \A p \in Range(failedPaths) : p \notin evaluated

\* C3 (as stated): after an HTTP attempt has failed with "no such host" or
\* "network is unreachable", no further HTTP request is issued in the run.
C3_NoAttemptAfterFatal == [][fatalAttempt => nreq' = nreq]_vars

\* C4: a non-fatal failure of the fetch of one path appends exactly that
\* path to failedPaths and leaves the results and the set of evaluated
\* paths as they were; the path loop goes on with the request for the next
\* classified path; and a run without a fatal error ends with every path
\* either evaluated or (exactly once) in failedPaths, never both.
C4_NonFatalFailureIsLocal ==
    [][ /\ NonFatalFailure =>
            /\ failedPaths' = Append(failedPaths, ClassPath(idx))
            /\ results' = results
            /\ evaluated' = evaluated
            /\ idx' = idx + 1
            /\ IF idx < Len(pathClassifications)
               THEN /\ pc' = "request"
                    /\ currentURL' = FullURL(BaseURL, ClassPath(idx + 1))
                    /\ ClassPath(idx + 1) \in requested'
               ELSE pc' = "done"
        /\ (pc' = "done" /\ fatalAt' = 0) =>
            \A j \in 1..Len(pathClassifications') :
                /\ pathClassifications'[j].Path \in requested'
                /\ (pathClassifications'[j].Path \in evaluated')
                     # (pathClassifications'[j].Path \in Range(failedPaths'))
      ]_vars

\* the second of three or more paths failed non-fatally; its neighbours
\* were fetched and evaluated, and results were recorded
C4_Witness ==
    /\ pc = "done"
    /\ fatalAt = 0
    /\ Len(pathClassifications) >= 3
    /\ failedPaths = <<ClassPath(2)>>
    /\ {ClassPath(1), ClassPath(3)} \subseteq evaluated
    /\ results # NoResults

(***************************************************************************)
(* Properties of requestWithRetry.                                         *)
(***************************************************************************)
NumAttempts(tr) == Cardinality({i \in DOMAIN tr : tr[i].ev = "attempt"})

\* C5: requestWithRetry makes at most 2 attempts; a successful attempt ends
\* the call at once; when every attempt fails the call ends after exactly
\* 2 attempts with the last attempt's error, wrapped; one backoff of
\* 1 second lies between the two attempts and none follows the last.
C5_RetryShape ==
    /\ NumAttempts(trace) + (IF pc = "request" THEN 1 ELSE 0) <= 2
    /\ lastFetch.valid =>
         LET tr == lastFetch.trace
         IN  /\ tr \in { <<Attempt(TRUE, << >>)>> }
                   \cup { <<Attempt(FALSE, e), Sleep(1), Attempt(TRUE, << >>)>> :
                            e \in server.errors }
                   \cup { <<Attempt(FALSE, e1), Sleep(1), Attempt(FALSE, e2)>> :
                            e1 \in server.errors, e2 \in server.errors }
             /\ lastFetch.ok = tr[Len(tr)].ok
             /\ ~lastFetch.ok =>
                  /\ NumAttempts(tr) = 2
                  /\ lastFetch.err
                       = <<"failed after", "1", "retries:">> \o tr[Len(tr)].err

\* a fetch failed on both attempts, with different errors
C5_Witness ==
    /\ lastFetch.valid
    /\ ~lastFetch.ok
    /\ Len(lastFetch.trace) = 3
    /\ lastFetch.trace[1].err # lastFetch.trace[3].err

(***************************************************************************)
(* Properties of makeRequest (checked under SpecRedirect and SpecAccum).   *)
(* chain holds the requests made so far by the current call together with  *)
(* their responses; lastFetch.chain is the chain of the call that ended    *)
(* the last fetch.                                                         *)
(***************************************************************************)
IsRedirect(resp) == resp.status >= 300 /\ resp.status < 400

LocationOf(resp) == HeaderGet(RespHeader(resp), "Location")

\* the bodies of the responses of a chain, in traversal order
Bodies(ch) == [i \in 1..Len(ch) |-> ch[i].resp.body]

\* the header lines of the responses of a chain, in traversal order
HeaderLines(ch) == Flatten([i \in 1..Len(ch) |-> ch[i].resp.hdrs])

\* the URLs requested by the current makeRequest call, in order
RequestedURLs ==
    [i \in 1..Len(chain) |-> chain[i].url]
        \o (IF pc = "request" THEN <<currentURL>> ELSE << >>)

\* the response of a hop is a redirect to another host than the one the
\* request of that hop went to
CrossHost(hop) ==
    /\ IsRedirect(hop.resp)
    /\ LocationOf(hop.resp) # << >>
    /\ ~EqualFold(ConnectHost(resolveURL(hop.url, LocationOf(hop.resp)).url),
                  ConnectHost(hop.url))

\* the response of a hop is a 3xx without a Location header
NoLocation(hop) == IsRedirect(hop.resp) /\ LocationOf(hop.resp) = << >>

C7_RequestsStayOnHost ==
    \A i \in 2..Len(RequestedURLs) :
        EqualFold(ConnectHost(RequestedURLs[i]), ConnectHost(RequestedURLs[i - 1]))

\* C8 (as stated): a 3xx response that redirects to a different host, or
\* has no Location header, is the last response of its call; the call
\* returns a context holding the body and headers of that response, and
\* the path is not in failedPaths.
C8_CrossHostHalts ==
    \A i \in 1..Len(chain) :
        (CrossHost(chain[i]) \/ NoLocation(chain[i])) =>
            /\ i = Len(RequestedURLs)
            /\ lastFetch.ok
            /\ lastFetch.chain = chain
            /\ HasSuffix(lastFetch.ctx.Body, chain[i].resp.body)
            /\ \A n \in DOMAIN chain[i].resp.hdrs :
                  \E k \in DOMAIN lastFetch.ctx.Headers :
                     Lower(k) = Lower(chain[i].resp.hdrs[n].name)
            /\ lastFetch.path \notin Range(failedPaths)

\* C9 (as stated): the body of the returned context is the bodies of all
\* responses of the chain joined with a newline, in traversal order.
C9_BodyJoinsAllBodies ==
    (lastFetch.valid /\ lastFetch.ok) =>
        lastFetch.ctx.Body = Join(Bodies(lastFetch.chain), <<"\n">>)

\* C9 (amended): the body of the returned context is the non-empty bodies
\* of the responses of the chain joined with a newline, in traversal order;
\* a response with an empty body contributes nothing, not even a newline.
C9_BodyJoinsNonEmptyBodies ==
    (lastFetch.valid /\ lastFetch.ok) =>
        lastFetch.ctx.Body
          = Join(SelectSeq(Bodies(lastFetch.chain), LAMBDA b : b # << >>),
                 <<"\n">>)

\* a chain A -> B -> C of three responses with bodies, the first two differing
C9_Witness ==
    /\ lastFetch.ok
    /\ Len(lastFetch.chain) = 3
    /\ \A i \in 1..3 : lastFetch.chain[i].resp.body # << >>
    /\ lastFetch.chain[1].resp.body # lastFetch.chain[2].resp.body

\* C10: for every header line received in the chain, the returned context
\* has exactly one entry whose name equals the line's name case-
\* insensitively, and its value is the value of the earliest line of the
\* chain with that name; the context has no other entries.
C10_FirstHeaderWins ==
    (lastFetch.valid /\ lastFetch.ok) =>
        LET lines == HeaderLines(lastFetch.chain)
            H     == lastFetch.ctx.Headers
            First(n) == Min({m \in 1..n : Lower(lines[m].name) = Lower(lines[n].name)})
        IN  /\ \A n \in 1..Len(lines) :
                  \E k \in DOMAIN H :
                     /\ Lower(k) = Lower(lines[n].name)
                     /\ H[k] = lines[First(n)].value
            /\ \A k \in DOMAIN H :
                  \E n \in 1..Len(lines) : Lower(lines[n].name) = Lower(k)
            /\ \A k1, k2 \in DOMAIN H : Lower(k1) = Lower(k2) => k1 = k2

\* the first hop sends "server", the second "Server" with another value,
\* and a later hop brings a header the earlier hops did not carry
C10_Witness ==
    /\ lastFetch.ok
    /\ Len(lastFetch.chain) = 3
    /\ \E n \in DOMAIN lastFetch.chain[1].resp.hdrs :
          lastFetch.chain[1].resp.hdrs[n].name = "server"
    /\ \E n \in DOMAIN lastFetch.chain[2].resp.hdrs :
          /\ lastFetch.chain[2].resp.hdrs[n].name = "Server"
          /\ lastFetch.chain[2].resp.hdrs[n].value # lastFetch.ctx.Headers["Server"]
    /\ \E n \in DOMAIN lastFetch.chain[3].resp.hdrs :
          lastFetch.chain[3].resp.hdrs[n].name = "X-Gen"
    /\ lastFetch.ctx.Headers["X-Gen"] = <<"wp">>

(***************************************************************************)
(* Properties of the classification and of the probe loop.                 *)
(***************************************************************************)
\* C11 (as stated): the probes grouped in one classification all declare
\* the request override the classification is fetched with.
C11_GroupSharesRequestShape ==
    \A j \in DOMAIN pathClassifications :
        \A t \in DOMAIN pathClassifications[j].Technologies :
            \A i \in DOMAIN pathClassifications[j].Technologies[t] :
                pathClassifications[j].Technologies[t][i].Request
                    = pathClassifications[j].RequestConf

\* C12: in one DetectHTTP run requestWithRetry is called at most once for
\* each probe path, however many technologies and probes declare the path.
C12_PathFetchedOnce ==
    \A i, j \in DOMAIN fetched : i # j => fetched[i] # fetched[j]

\* the run is over, several paths were fetched, and one of them is declared
\* by probes of more than one technology
C12_Witness ==
    /\ pc = "done"
    /\ Len(fetched) > 1
    /\ \E j \in DOMAIN pathClassifications :
          /\ ClassPath(j) \in Range(fetched)
          /\ Cardinality(DOMAIN pathClassifications[j].Technologies) > 1

\* C13 (as stated): a technology whose version in the result map is not
\* empty keeps a non-empty version in every later step of the run.
C13_VersionNeverLost ==
    [][\A t \in DOMAIN results :
          results[t] # << >> =>
             (t \in DOMAIN results' /\ results'[t] # << >>)]_vars

(***************************************************************************)
(* Properties of the probe loop (checked under SpecProbes).                *)
(***************************************************************************)
\* the classification of the path fetched last
LastClass ==
    pathClassifications[CHOOSE j \in DOMAIN pathClassifications :
                           ClassPath(j) = lastFetch.path]

\* the probes technology t declares for the path fetched last, in the
\* order of the rule store
Declared(t) ==
    SelectSeq(fingerprints[t].Paths, LAMBDA pr : pr.Path = lastFetch.path)

\* the declared probes whose expression matches the fetched context
Hits(t) ==
    {i \in DOMAIN Declared(t) :
        Evaluate(Declared(t)[i].Detect, lastFetch.ctx).matched}

\* the rules of a probe that capture a group from the fetched context
Capturing(probe) ==
    {i \in DOMAIN probe.ExtractVersion :
        /\ getFieldValue(probe.ExtractVersion[i].field, lastFetch.ctx) # << >>
        /\ Compiles(probe.ExtractVersion[i].pattern)
        /\ Len(FindStringSubmatch(probe.ExtractVersion[i].pattern,
                 getFieldValue(probe.ExtractVersion[i].field,
                               lastFetch.ctx))) > 1}

\* the group rule i of a probe captures
Captured(probe, i) ==
    FindStringSubmatch(probe.ExtractVersion[i].pattern,
        getFieldValue(probe.ExtractVersion[i].field, lastFetch.ctx))[2]

\* C14: after a path is fetched, every technology's probes for that path
\* are evaluated in the order the rule store declares them, up to and
\* including the first probe that matches and no further; the technology's
\* result is the version of that first matching probe.
C14_FirstMatchWins ==
    (lastFetch.valid /\ lastFetch.ok) =>
        \A t \in DOMAIN fingerprints :
            IF Declared(t) = << >>
            THEN t \notin DOMAIN LastClass.Technologies
            ELSE /\ LastClass.Technologies[t] = Declared(t)
                 /\ IF Hits(t) = {}
                    THEN lastFetch.tried[t] = DOMAIN Declared(t)
                    ELSE /\ lastFetch.tried[t] = 1..Min(Hits(t))
                         /\ t \in DOMAIN results
                         /\ results[t] =
                              ProbeVersion(Declared(t)[Min(Hits(t))],
                                           lastFetch.ctx)

\* a technology whose first probe for the path does not match, whose later
\* probes match twice with different versions, the last one never tried
C14_Witness ==
    /\ lastFetch.valid
    /\ lastFetch.ok
    /\ \E t \in DOMAIN LastClass.Technologies :
          /\ Cardinality(Hits(t)) > 1
          /\ 1 \notin Hits(t)
          /\ Max(Hits(t)) \notin lastFetch.tried[t]
          /\ ProbeVersion(Declared(t)[Max(Hits(t))], lastFetch.ctx)
                # results[t]

\* C15: for the matching probe of a technology, the extraction rules are
\* visited exactly when the expression gave an empty version (and there are
\* rules); they are visited in list order up to the first rule that
\* captures a group, whose group becomes the version; a version given by
\* the expression is recorded as it is.
C15_ExtractionFallback ==
    (lastFetch.valid /\ lastFetch.ok) =>
        \A t \in DOMAIN LastClass.Technologies :
            IF Hits(t) = {} THEN lastFetch.rules[t] = {}
            ELSE LET probe == Declared(t)[Min(Hits(t))]
                     exprV == Evaluate(probe.Detect, lastFetch.ctx).version
                 IN  IF exprV # << >>
                     THEN /\ lastFetch.rules[t] = {}
                          /\ results[t] = exprV
                     ELSE IF Capturing(probe) = {}
                     THEN /\ lastFetch.rules[t] = DOMAIN probe.ExtractVersion
                          /\ results[t] = << >>
                     ELSE /\ lastFetch.rules[t] = 1..Min(Capturing(probe))
                          /\ results[t] = Captured(probe, Min(Capturing(probe)))

\* one technology takes its version from a rule that is not the first of
\* the list while a later rule would capture another version, and another
\* technology keeps the version of its expression although a rule of the
\* matching probe captures a different one
C15_Witness ==
    /\ lastFetch.valid
    /\ lastFetch.ok
    /\ \E t \in DOMAIN LastClass.Technologies :
          /\ Hits(t) # {}
          /\ LET probe == Declared(t)[Min(Hits(t))]
             IN  /\ Cardinality(Capturing(probe)) > 1
                 /\ Min(Capturing(probe)) > 1
                 /\ lastFetch.rules[t] = 1..Min(Capturing(probe))
                 /\ Captured(probe, Max(Capturing(probe))) # results[t]
    /\ \E t \in DOMAIN LastClass.Technologies :
          /\ Hits(t) # {}
          /\ LET probe == Declared(t)[Min(Hits(t))]
             IN  /\ Evaluate(probe.Detect, lastFetch.ctx).version = results[t]
                 /\ results[t] # << >>
                 /\ Capturing(probe) # {}
                 /\ Captured(probe, Min(Capturing(probe))) # results[t]

(***************************************************************************)
(* Properties of the evaluator (checked under SpecEval).                   *)
(***************************************************************************)
\* the call e evaluated {key: [children]}
IsListOf(e, key) ==
    /\ Len(e.visit.kv) = 1
    /\ e.visit.kv[1].k = key
    /\ e.visit.kv[1].v.t = "list"

\* the child list of such a call, as the call visited it
ChildrenOf(e) == e.visit.kv[1].v.l

\* what a child evaluates to; a child that is not an object does not match
ChildRes(c) == IF c.t = "obj" THEN Evaluate(c, qctx) ELSE NoMatch

\* the children of call e that match, and those that give a version
Matching(e) ==
    {i \in DOMAIN ChildrenOf(e) : ChildRes(ChildrenOf(e)[i]).matched}

Versioned(e) ==
    {i \in DOMAIN ChildrenOf(e) : ChildRes(ChildrenOf(e)[i]).version # << >>}

\* the children among the first n that are expressions
ExpressionsUpTo(e, n) == {i \in 1..n : ChildrenOf(e)[i].t = "obj"}

\* C16: $and over a list is true iff every child matches; the children are
\* evaluated in list order up to the first one that does not match, and
\* then the result is false with the empty version; when it is true the
\* version is that of the last child with a non-empty version, empty when
\* there is none (so $and over the empty list is true, empty version).
C16_AndSemantics ==
    \A n \in DOMAIN evals :
        IsListOf(evals[n], <<"$and">>) =>
            LET e       == evals[n]
                failing == DOMAIN ChildrenOf(e) \ Matching(e)
            IN  IF failing # {}
                THEN /\ e.res = Res(FALSE, << >>)
                     /\ e.tried = ExpressionsUpTo(e, Min(failing))
                ELSE /\ e.res.matched
                     /\ e.tried = DOMAIN ChildrenOf(e)
                     /\ e.res.version =
                          IF Versioned(e) = {} THEN << >>
                          ELSE ChildRes(ChildrenOf(e)[Max(Versioned(e))]).version

\* an $and whose children all match and give two different versions
C16_Witness ==
    \E n \in DOMAIN evals :
        /\ IsListOf(evals[n], <<"$and">>)
        /\ evals[n].res.matched
        /\ Cardinality(Versioned(evals[n])) > 1
        /\ ChildRes(ChildrenOf(evals[n])[Min(Versioned(evals[n]))]).version
              # evals[n].res.version

\* C17: $or over a list is true iff some child matches; the children are
\* evaluated in list order up to the first one that matches, whose version
\* (empty or not) is the version of the $or; $or over the empty list, or
\* over children none of which matches, is false with the empty version.
C17_OrSemantics ==
    \A n \in DOMAIN evals :
        IsListOf(evals[n], <<"$or">>) =>
            LET e == evals[n]
            IN  IF Matching(e) = {}
                THEN /\ e.res = Res(FALSE, << >>)
                     /\ e.tried = ExpressionsUpTo(e, Len(ChildrenOf(e)))
                ELSE /\ e.res.matched
                     /\ e.tried = ExpressionsUpTo(e, Min(Matching(e)))
                     /\ e.res.version =
                          ChildRes(ChildrenOf(e)[Min(Matching(e))]).version

\* an $or whose first matching child gives no version while a later child
\* matches with one
C17_Witness ==
    \E n \in DOMAIN evals :
        /\ IsListOf(evals[n], <<"$or">>)
        /\ evals[n].res = Res(TRUE, << >>)
        /\ \E i \in Matching(evals[n]) : i \in Versioned(evals[n])
        /\ Max(Matching(evals[n])) \notin evals[n].tried

\* C18: $not over an expression is true iff the expression is false, $nor
\* over a list is true iff no child expression of the list is true, and
\* the version of both is always empty.
C18_NotNorSemantics ==
    \A n \in DOMAIN evals :
        LET e == evals[n]
        IN  /\ (/\ Len(e.visit.kv) = 1
                /\ e.visit.kv[1].k = <<"$not">>
                /\ e.visit.kv[1].v.t = "obj") =>
                   e.res = Res(~Evaluate(e.visit.kv[1].v, qctx).matched, << >>)
            /\ IsListOf(e, <<"$nor">>) =>
                   e.res = Res(Matching(e) = {}, << >>)

\* a $nor that is false because a child matches with a version, and a $not
\* that is false because its child is true
C18_Witness ==
    /\ Len(evals) = 2
    /\ IsListOf(evals[1], <<"$nor">>)
    /\ \E i \in Matching(evals[1]) : i \in Versioned(evals[1])
    /\ evals[1].res = Res(FALSE, << >>)
    /\ evals[2].visit.kv[1].k = <<"$not">>
    /\ Evaluate(evals[2].visit.kv[1].v, qctx).matched
    /\ evals[2].res = Res(FALSE, << >>)

\* C19 (as stated): when an expression X and then $not($not(X)) are
\* evaluated on one context, the two results agree on matched, and the
\* version of the second is empty.
C19_DoubleNegation ==
    (Len(evals) = 2 /\ queries[2] = NotNot(queries[1])) =>
        /\ evals[2].res.matched = evals[1].res.matched
        /\ evals[2].res.version = << >>

\* C20: {field: {$in: S}} and {field: {$nin: S}} evaluated on one context
\* are never both true, and exactly one of them is true when the value of
\* the field is not empty and S is a list.
C20_InNinExclusive ==
    \A f \in EvalFields, operand \in EvalOperands :
        (Len(evals) = 2
         /\ queries = <<InCond(f, operand), NinCond(f, operand)>>) =>
            /\ ~(evals[1].res.matched /\ evals[2].res.matched)
            /\ (getFieldValue(f, qctx) # << >> /\ operand.t = "list") =>
                  (evals[1].res.matched # evals[2].res.matched)

\* the value of the field is a later element of the list: $in is true and
\* $nin is false
C20_Witness ==
    \E f \in EvalFields, operand \in EvalOperands :
        /\ Len(evals) = 2
        /\ queries = <<InCond(f, operand), NinCond(f, operand)>>
        /\ operand.t = "list"
        /\ Len(operand.l) > 1
        /\ operand.l[1] # Str(getFieldValue(f, qctx))
        /\ evals[1].res.matched
        /\ ~evals[2].res.matched

(***************************************************************************)
(* Properties of the field conditions (checked under SpecEval).            *)
(***************************************************************************)
CombinatorKeys == {<<"$and">>, <<"$or">>, <<"$not">>, <<"$nor">>}

\* the call e evaluated a field condition
IsCondition(e) ==
    /\ Len(e.visit.kv) > 0
    /\ e.visit.kv[1].k \notin CombinatorKeys

\* C21: a field condition on a field whose value in the context is empty
\* (header not present, empty body) is false with the empty version,
\* whatever its operator and operand.
C21_AbsentFieldNeverMatches ==
    \A n \in DOMAIN evals :
        (/\ IsCondition(evals[n])
         /\ getFieldValue(evals[n].visit.kv[1].k, qctx) = << >>) =>
            evals[n].res = Res(FALSE, << >>)

\* $ne against a header the context does not have
C21_Witness ==
    \E n \in DOMAIN evals :
        /\ evals[n].visit =
              Obj1(Field("x-none"), Obj1(<<"$ne">>, Str(<<"hello">>)))
        /\ Field("x-none") \in EvalFields
        /\ getFieldValue(Field("x-none"), qctx) = << >>
        /\ ~evals[n].res.matched

\* C22 (as stated): {field: {$exists: false}} is true exactly when the
\* field is absent from the context.
C22_ExistsFalseOnAbsent ==
    \A n \in DOMAIN evals, f \in EvalFields :
        evals[n].visit = Obj1(f, Obj1(<<"$exists">>, Bool(FALSE))) =>
            evals[n].res.matched = (getFieldValue(f, qctx) = << >>)

\* the operand has the shape the operator expects
WellTyped(operator, operand) ==
    CASE operator \in {<<"$eq">>, <<"$ne">>} -> operand.t = "str"
      [] operator = <<"$regex">> ->
            operand.t = "str" /\ "(" \notin Range(operand.s)
      [] operator = <<"$exists">> -> operand.t = "bool"
      [] operator \in {<<"$in">>, <<"$nin">>} ->
            /\ operand.t = "list"
            /\ \A i \in DOMAIN operand.l : operand.l[i].t = "str"
      [] OTHER -> FALSE

\* every condition of the expression is a malformed part: a child that is
\* not an object, a combinator value of the wrong shape, a condition that
\* is not an operator object, an unknown operator, an operand that does
\* not fit, a pattern that does not compile
RECURSIVE OnlyMalformed(_)
OnlyMalformed(q) ==
    IF q.t # "obj" THEN TRUE
    ELSE IF Len(q.kv) # 1 THEN FALSE
    ELSE LET key   == q.kv[1].k
             value == q.kv[1].v
         IN  IF key = <<"$not">>
             THEN value.t # "obj" \/ OnlyMalformed(value)
             ELSE IF key \in CombinatorKeys
             THEN \/ value.t # "list"
                  \/ /\ Len(value.l) > 0
                     /\ \A i \in DOMAIN value.l : OnlyMalformed(value.l[i])
             ELSE \/ value.t # "obj"
                  \/ /\ Len(value.kv) > 0
                     /\ \A i \in DOMAIN value.kv :
                           ~WellTyped(value.kv[i].k, value.kv[i].v)

\* C23 (as stated): an expression in which every condition is a malformed
\* part is not reported as matched.
C23_MalformedNeverMatches ==
    \A n \in DOMAIN evals :
        OnlyMalformed(evals[n].query) => ~evals[n].res.matched

\* the pattern without its marker suffix
BarePattern(pattern) ==
    IF VersionMarker \in Range(pattern)
    THEN Slice(pattern, 1, Index(pattern, <<VersionMarker>>) - 1)
    ELSE pattern

\* C24: a $regex condition on a non-empty value is decided by the pattern
\* without its marker suffix: false when that does not compile or does not
\* match; on a match the version is the first group when the pattern
\* carries a marker and has a group, and empty otherwise.  Server =
\* nginx/1.18.0 against ^nginx/([0-9.]+)$ with a marker gives 1.18.0.
C24_RegexMarker ==
    \A n \in DOMAIN evals, f \in EvalFields, pattern \in EvalPatterns :
        (/\ evals[n].visit = Obj1(f, Obj1(<<"$regex">>, Str(pattern)))
         /\ getFieldValue(f, qctx) # << >>) =>
            LET value   == getFieldValue(f, qctx)
                bare    == BarePattern(pattern)
                matches == FindStringSubmatch(bare, value)
            IN  /\ evals[n].res =
                     IF "(" \in Range(bare) \/ matches = << >>
                     THEN Res(FALSE, << >>)
                     ELSE IF VersionMarker \in Range(pattern) /\ Len(matches) > 1
                     THEN Res(TRUE, matches[2])
                     ELSE Res(TRUE, << >>)
                /\ (/\ pattern = <<"^", "nginx/", "(v)", "$", VersionMarker, "\\1">>
                    /\ value = <<"nginx/", "1.18.0">>) =>
                       evals[n].res = Res(TRUE, <<"1.18.0">>)

\* the example of the claim: the anchored pattern with its marker is
\* evaluated against Server = nginx/1.18.0
C24_Witness ==
    \E n \in DOMAIN evals :
        /\ evals[n].visit =
              Obj1(Field("server"),
                   Obj1(<<"$regex">>,
                        Str(<<"^", "nginx/", "(v)", "$", VersionMarker, "\\1">>)))
        /\ getFieldValue(Field("server"), qctx) = <<"nginx/", "1.18.0">>
        /\ evals[n].res.version = <<"1.18.0">>

\* C25 (as stated): two evaluations of one expression on one context give
\* the same (matched, version) pair.
C25_EvaluateIsPure ==
    (Len(evals) = 2 /\ queries[1] = queries[2]) =>
        evals[1].res = evals[2].res

(***************************************************************************)
(* Properties of the implication closure (checked under SpecImplies).      *)
(***************************************************************************)
\* every name the store or the result map knows
AllNames ==
    DOMAIN fingerprints \cup DOMAIN results
    \cup UNION {Range(fingerprints[t].Implies) : t \in DOMAIN fingerprints}

\* X holds with every technology the technologies it implies
ClosedUnderImplies(X) ==
    \A t \in X \cap DOMAIN fingerprints :
        Range(fingerprints[t].Implies) \subseteq X

\* the least set that contains S and is closed under implies
LeastClosed(S) ==
    {t \in AllNames :
        \A X \in SUBSET AllNames :
            (S \subseteq X /\ ClosedUnderImplies(X)) => t \in X}

\* C26: whatever the order of the ranges, addImpliedTechnologies returns
\* the least set of technologies that contains the detected ones and is
\* closed under implies; the detected ones keep their versions and the
\* added ones have the empty version.
C26_LeastClosure ==
    Len(closures) > 0 =>
        /\ DOMAIN closures[1] = LeastClosed(DOMAIN results)
        /\ \A t \in DOMAIN closures[1] :
              closures[1][t] = IF t \in DOMAIN results THEN results[t]
                               ELSE << >>

\* a technology with a version among the detected ones, and a technology
\* added that none of the detected ones implies directly
C26_Witness ==
    /\ Len(closures) > 0
    /\ \E t \in DOMAIN results : results[t] # << >>
    /\ \E t \in DOMAIN closures[1] \ DOMAIN results :
          \A d \in DOMAIN results : t \notin Range(fingerprints[d].Implies)

\* C27: addImpliedTechnologies applied to the map it returned returns that
\* map again, technologies and versions.
C27_ClosureIdempotent ==
    Len(closures) = 2 => closures[2] = closures[1]

\* the first application added technologies, over more than one pass
C27_Witness ==
    /\ Len(closures) = 2
    /\ \E t \in DOMAIN closures[1] \ DOMAIN results :
          \A d \in DOMAIN results : t \notin Range(fingerprints[d].Implies)
    /\ \E t \in DOMAIN closures[2] : closures[2][t] # << >>

\* C28: whatever DetectBrowser does, the httpResults map passed to it has
\* the same technologies after the call as before it, and the entry of each
\* has the same name and version.
C28_HttpResultsUntouched ==
    (useBrowser /\ pc \in {"navigate", "returned"}) =>
        /\ View(httpResults, heap) = httpBefore
        /\ \A t \in DOMAIN httpResults : heap[httpResults[t]].Name = t

\* the technologies one of whose detection scripts, on a page that loaded
\* for the path of the probe, returned true
ScriptSaidYes ==
    {t \in DOMAIN fingerprints :
        \E l \in loaded, i \in DOMAIN fingerprints[t].Browser :
           LET probe == fingerprints[t].Browser[i]
           IN  /\ probe.Path = l.path
               /\ probe.Detection # ""
               /\ probe.Detection \in l.page.detects \ l.page.errors}

\* C29: when augmentation is asked for and no browser path can be navigated
\* or loaded, Detect returns the implication closure of the HTTP results as
\* they were before augmentation: the technologies and versions that Detect
\* without augmentation returns for them.
C29_FallbackToHttp ==
    (useBrowser /\ pc = "returned" /\ loaded = {}) =>
        /\ final \in addImpliedTechnologies(fingerprints, httpBefore)
        /\ DOMAIN final = LeastClosed(DOMAIN httpBefore)
        /\ \A t \in DOMAIN final :
              final[t] = IF t \in DOMAIN httpBefore THEN httpBefore[t]
                         ELSE << >>

\* every browser path failed, the HTTP results hold a technology with a
\* version and one without, and the closure added a technology
C29_Witness ==
    /\ useBrowser
    /\ pc = "returned"
    /\ loaded = {}
    /\ Len(browserPaths) = 2
    /\ \E t \in DOMAIN httpBefore : httpBefore[t] # << >>
    /\ \E t \in DOMAIN httpBefore : httpBefore[t] = << >>
    /\ DOMAIN final # DOMAIN httpBefore

\* C30: in the map DetectBrowser works on, every technology of the HTTP
\* results stays, with its version when it had one and with no version or a
\* new one when it had none, and a technology the HTTP results did not
\* hold is there only if one of its detection scripts returned true.
C30_OnlyAddsOrUpgrades ==
    (useBrowser /\ pc \in {"navigate", "returned"}) =>
        LET after == View(browserResults, heap)
        IN  /\ DOMAIN httpBefore \subseteq DOMAIN after
            /\ \A t \in DOMAIN httpBefore :
                  httpBefore[t] # << >> => after[t] = httpBefore[t]
            /\ \A t \in DOMAIN httpBefore :
                  httpBefore[t] = << >> =>
                     after[t] = << >> \/ after[t] \in {<<"6.1">>, <<"18">>, <<"1.18.0">>}
            /\ DOMAIN after \ DOMAIN httpBefore \subseteq ScriptSaidYes

\* DetectBrowser has returned: it added a technology, gave a version to one
\* that had none, and left the version of one whose version script returned
\* another version on a page that loaded
C30_Witness ==
    /\ useBrowser
    /\ pc = "returned"
    /\ LET after == View(browserResults, heap)
       IN  /\ DOMAIN after # DOMAIN httpBefore
           /\ \E t \in DOMAIN httpBefore :
                 httpBefore[t] = << >> /\ after[t] # << >>
           /\ \E t \in DOMAIN httpBefore, l \in loaded :
                 /\ httpBefore[t] = <<"2.0">>
                 /\ t = "WordPress"
                 /\ l.page.versions["wpVersion"] = <<"6.1">>
                 /\ "wpVersion" \notin l.page.errors
                 /\ "wpDetect" \in l.page.detects

\* the probes of technology t that match the context fetched for their own
\* path in this run
OwnMatches(t) ==
    {i \in DOMAIN fingerprints[t].Paths :
        LET probe == fingerprints[t].Paths[i]
        IN  /\ probe.Path \in DOMAIN contexts
            /\ Evaluate(probe.Detect, contexts[probe.Path]).matched}

\* C32: every technology in the results of DetectHTTP has a probe of its
\* own that matches the context fetched successfully, in this run, for the
\* path of that probe; a technology without such a probe is not reported.
C32_DetectedFromOwnPath ==
    \A t \in DOMAIN results : OwnMatches(t) # {}

\* DetectHTTP has returned with a technology detected, a technology whose
\* only fetched path did not match, and a technology whose probes are all at
\* paths that failed
C32_Witness ==
    /\ pc = "done"
    /\ \E t \in DOMAIN results : OwnMatches(t) # {}
    /\ \E t \in DOMAIN fingerprints \ DOMAIN results :
          \E i \in DOMAIN fingerprints[t].Paths :
             fingerprints[t].Paths[i].Path \in DOMAIN contexts
    /\ \E t \in DOMAIN fingerprints \ DOMAIN results :
          /\ fingerprints[t].Paths # << >>
          /\ \A i \in DOMAIN fingerprints[t].Paths :
                /\ fingerprints[t].Paths[i].Path \notin DOMAIN contexts
                /\ fingerprints[t].Paths[i].Path \in Range(failedPaths)

\* the last response of the last completed fetch
LastResponse == lastFetch.chain[Len(lastFetch.chain)].resp

\* the last completed fetch ended with a response of status 400 or more
ErrorStatus ==
    /\ lastFetch.valid
    /\ lastFetch.chain # << >>
    /\ LastResponse.status >= 400

\* C37: a fetch whose last response has a 4xx or 5xx status succeeds: the
\* path is not in failedPaths, no attempt follows the response, the
\* context holds the body and the headers of the response with status 200,
\* and every technology with a probe at the path matching that context is
\* in the results.
C37_ErrorStatusIsSuccess ==
    ErrorStatus =>
        /\ lastFetch.ok
        /\ lastFetch.path \notin Range(failedPaths)
        /\ lastFetch.path \in evaluated
        /\ lastFetch.trace[Len(lastFetch.trace)] = Attempt(TRUE, << >>)
        /\ \A i \in 1..(Len(lastFetch.trace) - 1) : ~lastFetch.trace[i].ok
        /\ lastFetch.ctx.StatusCode = 200
        /\ HasSuffix(lastFetch.ctx.Body, LastResponse.body)
        /\ \A i \in DOMAIN LastResponse.hdrs :
              LET k == CanonicalKey(LastResponse.hdrs[i].name)
              IN  /\ k \in DOMAIN lastFetch.ctx.Headers
                  /\ Len(lastFetch.chain) = 1 =>
                        lastFetch.ctx.Headers[k] = LastResponse.hdrs[i].value
        /\ \A t \in DOMAIN fingerprints :
              (\E i \in DOMAIN fingerprints[t].Paths :
                  /\ fingerprints[t].Paths[i].Path = lastFetch.path
                  /\ Evaluate(fingerprints[t].Paths[i].Detect,
                              lastFetch.ctx).matched)
                 => t \in DOMAIN results

\* a 404 page answered at the first attempt, from which a technology and
\* its version were detected
C37_Witness ==
    /\ ErrorStatus
    /\ LastResponse.status = 404
    /\ Len(lastFetch.trace) = 1
    /\ "WordPress" \in DOMAIN results
    /\ results["Nginx"] = <<"1.18.0">>

\* the hops of ch are one redirect chain that starts at the URL of path
OneChainFrom(ch, path) ==
    /\ ch # << >>
    /\ ch[1].url = FullURL(BaseURL, path)
    /\ \A i \in 1..(Len(ch) - 1) :
          LET target == RedirectTarget(ch[i].url, i - 1, ch[i].resp)
          IN  target.follow /\ ch[i + 1].url = target.url

\* C35: an attempt that fails at any hop returns no context; an attempt
\* begins at the URL of the path with nothing accumulated; and a returned
\* context is made of the responses of the one redirect chain of the attempt
\* that returned it: nothing of a failed attempt is in it.
C35_NoMixedAttempts ==
    /\ (lastFetch.valid /\ ~lastFetch.ok) => lastFetch.ctx = NoContext
    /\ (pc = "request" /\ chain = << >>) =>
          /\ currentURL = FullURL(BaseURL, pathClassifications[idx].Path)
          /\ redirectCount = 0
          /\ allBodies = << >>
          /\ allHeaders = EmptyHeaders
    /\ (lastFetch.valid /\ lastFetch.ok) =>
          /\ OneChainFrom(lastFetch.chain, lastFetch.path)
          /\ lastFetch.ctx.Body
               = Join(SelectSeq([i \in 1..Len(lastFetch.chain) |->
                                    lastFetch.chain[i].resp.body],
                                LAMBDA b : b # << >>),
                      <<"\n">>)
          /\ \A k \in DOMAIN lastFetch.ctx.Headers :
                \E i \in 1..Len(lastFetch.chain) :
                   /\ k \in DOMAIN RespHeader(lastFetch.chain[i].resp)
                   /\ \A j \in 1..(i - 1) :
                         k \notin DOMAIN RespHeader(lastFetch.chain[j].resp)
                   /\ lastFetch.ctx.Headers[k]
                        = RespHeader(lastFetch.chain[i].resp)[k][1]

\* the first attempt failed after a redirect whose body had been kept, the
\* second attempt followed a redirect too and returned a context
C35_Witness ==
    /\ lastFetch.valid
    /\ lastFetch.ok
    /\ Len(lastFetch.trace) = 3
    /\ Len(discarded) = 1
    /\ discarded[1]
    /\ Len(lastFetch.chain) >= 2
    /\ lastFetch.ctx.Body # << >>

\* on return every classified path was fetched and evaluated or is listed
Accounted ==
    \A i \in DOMAIN pathClassifications :
        \/ /\ pathClassifications[i].Path \in evaluated
           /\ pathClassifications[i].Path \in DOMAIN contexts
        \/ pathClassifications[i].Path \in Range(failedPaths)

\* no path is listed twice
ListedOnce ==
    \A i, j \in DOMAIN failedPaths :
        failedPaths[i] = failedPaths[j] => i = j

\* C34: when every attempt returns and every sleep ends, DetectHTTP returns;
\* on return every classified path has been fetched successfully and
\* evaluated, or is in failedPaths (a path can be both, see C2); failedPaths
\* never lists a path twice.
C34_DetectHTTPTerminates ==
    /\ <>(pc = "done")
    /\ [](ListedOnce /\ (pc = "done" => Accounted))

\* DetectHTTP has returned: one path was evaluated at the end of a redirect
\* chain, the other failed at both attempts, the last after a redirect
C34_Witness ==
    /\ pc = "done"
    /\ Len(pathClassifications) = 2
    /\ Cardinality(evaluated) = 1
    /\ \E p \in evaluated : p \notin Range(failedPaths)
    /\ Len(failedPaths) = 1
    /\ lastFetch.valid
    /\ ~lastFetch.ok
    /\ Len(lastFetch.trace) = 3
    /\ Len(lastFetch.chain) >= 1
    /\ nreq >= 6

\* C36: the loop of addImpliedTechnologies ends, whatever the implies
\* relation (self-implication, cycles, names without a fingerprint) and the
\* detected technologies, and it never makes more passes than the number of
\* technologies it has added plus one.
C36_ClosureTerminates ==
    /\ <>(~changed)
    /\ [](npass <= Cardinality(implied \ DOMAIN results) + 1)

\* the loop has ended after four passes from a result map with the
\* self-implying technology; the technologies of the cycle and the one
\* without a fingerprint were added
C36_Witness ==
    /\ ~changed
    /\ npass = 4
    /\ "Nginx" \in DOMAIN results
    /\ {"PHP", "Zend", "MySQL"} \subseteq implied \ DOMAIN results

\* C33: two calls of DetectHTTP with the same rule store and the same
\* fetch outcome for every path return the same technologies with the same
\* versions and the same set of failed paths, whatever the order in which
\* each call processes the classified paths.
C33_OrderIndependent ==
    Len(orderRuns) = 2 =>
        /\ orderRuns[1].ret.results = orderRuns[2].ret.results
        /\ Range(orderRuns[1].ret.failedPaths)
             = Range(orderRuns[2].ret.failedPaths)

\* what the call with locals l returns when it runs alone and
\* requestWithRetry returns for each path what it returned to l
AloneReturns(l) ==
    LET alone == DetectHTTPWith(l.classes, l.got)
    IN  {[results |-> out, failedPaths |-> alone.failedPaths] :
            out \in addImpliedTechnologies(PairStore, alone.results)}

\* C31: concurrent calls of Detect for different targets on one Detector
\* share only the rule store, which no call modifies: in every interleaving
\* each call returns the technologies, versions and failed paths it returns
\* when it runs alone against the same responses.
C31_RunsIndependent ==
    /\ fingerprints = PairStore
    /\ \A r \in Runs :
          runs[r].pc = "returned" => runs[r].ret \in AloneReturns(runs[r])

\* both calls have returned, each was in flight while the other was, and
\* they return different results: one detected WordPress with its version
\* and the implied PHP, the other nothing and lists a failed path
C31_Witness ==
    /\ \A r \in Runs : runs[r].pc = "returned" /\ runs[r].overlapped
    /\ runs["a"].ret.results
         = [t \in {"Nginx", "WordPress", "PHP"} |->
              CASE t = "Nginx" -> <<"1.18.0">>
                [] t = "WordPress" -> <<"2.0">>
                [] t = "PHP" -> << >>]
    /\ runs["b"].ret.results = NoResults
    /\ Len(runs["b"].ret.failedPaths) = 2

====
